---- MODULE Spec2Model ----
(***************************************************************************)
(* State-machine model of the captcha API (Find-Your-Humanity/captcha-api). *)
(*                                                                         *)
(* The relational store (MySQL) holds captcha_tokens, api_keys and         *)
(* suspicious_ips; the KV store (Redis) holds checkbox sessions, challenge *)
(* documents, rate counters and the suspicious-IP registry.  One action    *)
(* models one function or HTTP handler of the source, run to completion;   *)
(* the concurrency specification splits a read/modify/write function into  *)
(* its store accesses.                                                     *)
(*                                                                         *)
(* Environment assumptions, stated once:                                   *)
(*  - the application clock and the database clock are one clock (now);    *)
(*  - dbUp and redisUp say whether the stores answer, and stay TRUE in the *)
(*    specifications below unless a specification names an outage action; *)
(*  - a KV entry written with SETEX at time s with ttl is gone at every    *)
(*    time t >= s + ttl;                                                   *)
(*  - rows of api_keys and of suspicious_ips are written outside this      *)
(*    program: no statement of the sources inserts or updates them.        *)
(***************************************************************************)
EXTENDS Integers, Sequences, FiniteSets, TLC

\* ---------------------------------------------------------------- bounds

\* Last instant of the sampled wall clock of the token specification.
MaxTime == 601

\* Largest attempts value a checkbox session reaches in the concurrency
\* specification.
MaxAttempts == 3

\* ------------------------------------------------------- program constants

\* timedelta(minutes=10) in generate_captcha_token, in seconds.
TOKEN_TTL == 600

\* ttl=300 of create_checkbox_session and increment_checkbox_attempts.
SESSION_TTL == 300

\* CAPTCHA_TTL = int(os.getenv("CAPTCHA_TTL", "60")).
CAPTCHA_TTL == 60

\* Lengths of the two windows of the per-key limiter, and the TTLs of their
\* counters.
MINUTE == 60

DAY == 86400

\* if session_data["bot_attempts"] >= 3
BOT_BLOCK_AT == 3

\* is_low_score = confidence_score >= 91
BOT_SCORE == 91

\* ---------------------------------------------------------------- universes

\* Instants at which the token specification observes the clock (seconds):
\* a mint at 0 or 1, and both sides of the expiry of either mint.
TokenTimes == {t \in {0, 1, 599, 600, 601, 602} : t <= MaxTime}

\* token_id values secrets.token_urlsafe(32) may return.
TokenIds == {"tokA", "tokB"}

\* A token string that was never issued (a guess, or a fallback_token_ string).
BogusToken == "bogus"

\* api_keys.id values.
KeyIds == {1, 2}

\* captcha_type values a token row may carry.
CaptchaTypes == {"image", "abstract", "handwriting"}

\* X-API-Key values of requests: two keys with an active row, one without.
ApiKeys == {"keyA", "keyB"}

UnknownKey == "keyX"

\* The demo key hard-coded in the handlers.
DEMO_PUBLIC_KEY == "rc_live_demo"

\* X-Secret-Key values of requests: none, the key's secret, another string.
Secrets == {"", "sk", "wrong"}

\* Client addresses get_client_ip may return.
IPs == {"ip1", "ip2"}

\* session_id values: sent by the client, or a fresh uuid4.
SessionIds == {"s1", "s2"}

\* challenge_id values uuid4().hex may return.
ChallengeIds == {"c1"}

\* Answers: the one stored with a challenge, and another one.
Answers == {"right", "wrong"}

VARIABLES
    now,               \* wall clock, seconds
    dbUp,              \* the relational store answers
    redisUp,           \* the KV store answers
    captcha_tokens,    \* MySQL captcha_tokens: token_id -> row
    suspicious_ips,    \* MySQL suspicious_ips: the (api_key, ip_address) of rows with is_blocked = 1
    ip_registry,       \* Redis suspicious_ips:<ip> documents: ip -> doc
    blocked_ips_list,  \* Redis set blocked_ips_list
    checkbox_sessions, \* Redis checkbox_session:<id> documents: id -> doc
    challenges,        \* Redis <type>:<challenge_id> documents: <<type, id>> -> doc
    rate_limit,        \* Redis rate_limit:<unit>:<key>:<window> counters
    ip_rate_limit,     \* Redis ip_rate_limit:<unit>:<ip>:<window> counters
    IMAGE_GRID_SESSIONS, \* the process's dict of image-grid sessions: challenge_id -> session
    callers,           \* concurrent callers of increment_checkbox_attempts: their position and locals
    resp,              \* what the last call returned, with its arguments
    reqNo              \* parity of the number of calls made so far

vars == <<now, dbUp, redisUp, captcha_tokens, suspicious_ips, ip_registry,
          blocked_ips_list, checkbox_sessions, challenges, rate_limit,
          ip_rate_limit, IMAGE_GRID_SESSIONS, callers, resp, reqNo>>

\* The stores, the token table apart.
otherStores == <<suspicious_ips, ip_registry, blocked_ips_list,
                 checkbox_sessions, challenges, rate_limit, ip_rate_limit,
                 IMAGE_GRID_SESSIONS>>

NoResp == [op |-> "none"]

\* The two workers that may run increment_checkbox_attempts at once.
Workers == {"w1", "w2"}

Idle == [pc |-> "idle"]

\* An empty table or key space.
Empty == [x \in {} |-> 0]

\* The entries of a key space that are still there at time t.
Unexpired(store, t) == [x \in {y \in DOMAIN store : store[y].exp > t} |-> store[x]]

\* SETEX key ttl doc.
Setex(store, key, doc, ttl, tnow) ==
    [x \in DOMAIN store \cup {key} |->
        IF x = key THEN [doc EXCEPT !.exp = tnow + ttl] ELSE store[x]]

\* DEL key.
Del(store, key) == [x \in DOMAIN store \ {key} |-> store[x]]

\* ------------------------------------------------------------ token store

\* INSERT INTO captcha_tokens (...) VALUES (token, api_key_id, user_id,
\* captcha_type, expires_at, NOW()); is_used defaults to 0.
InsertToken(tbl, t, k, ctype, tnow) ==
    [x \in DOMAIN tbl \cup {t} |->
        IF x = t
        THEN [api_key_id |-> k, captcha_type |-> ctype, created_at |-> tnow,
              expires_at |-> tnow + TOKEN_TTL, is_used |-> 0]
        ELSE tbl[x]]

\* expires_at > NOW()
NotExpired_NoCheck(row, tnow) == TRUE

NotExpired(row, tnow) == row.expires_at > tnow

\* api_key_id = %s
KeyMatches_NoCheck(row, k) == TRUE

KeyMatches(row, k) == row.api_key_id = k

\* SELECT id, captcha_type FROM captcha_tokens WHERE token_id = %s AND
\* api_key_id = %s AND expires_at > NOW() AND is_used = 0
SelectToken(tbl, t, k, tnow) ==
    /\ t \in DOMAIN tbl
    /\ KeyMatches(tbl[t], k)
    /\ NotExpired(tbl[t], tnow)
    /\ tbl[t].is_used = 0

\* UPDATE captcha_tokens SET is_used = 1, used_at = NOW() WHERE id = %s
MarkUsed_NoUpdate(tbl, t) == tbl

MarkUsed(tbl, t) == [tbl EXCEPT ![t].is_used = 1]

\* verify_captcha_token: the tuple (is_valid, captcha_type) it returns.  Any
\* exception (the store does not answer) gives (False, None).
verify_captcha_token_ret(tbl, t, k, tnow, up) ==
    IF up /\ SelectToken(tbl, t, k, tnow)
    THEN <<TRUE, tbl[t].captcha_type>>
    ELSE <<FALSE, "None">>

\* verify_captcha_token: the table it leaves.
verify_captcha_token_tbl(tbl, t, k, tnow, up) ==
    IF up /\ SelectToken(tbl, t, k, tnow) THEN MarkUsed(tbl, t) ELSE tbl

\* ---------------------------------------------------------------- start

\* Everything but the suspicious_ips table: empty stores, nobody running.
InitCommon ==
    /\ now = 0
    /\ dbUp = TRUE
    /\ redisUp = TRUE
    /\ captcha_tokens = Empty
    /\ ip_registry = Empty
    /\ blocked_ips_list = {}
    /\ checkbox_sessions = Empty
    /\ challenges = Empty
    /\ rate_limit = Empty
    /\ ip_rate_limit = Empty
    /\ IMAGE_GRID_SESSIONS = Empty
    /\ callers = [w \in Workers |-> Idle]
    /\ resp = NoResp
    /\ reqNo = 0

Init == InitCommon /\ suspicious_ips = {}

\* The clock moves on to a later instant among those observed; the KV
\* entries whose TTL has run out by then are gone.
Tick(instants) ==
    /\ \E t \in instants :
          /\ t > now
          /\ now' = t
          /\ checkbox_sessions' = Unexpired(checkbox_sessions, t)
          /\ challenges' = Unexpired(challenges, t)
          /\ rate_limit' = Unexpired(rate_limit, t)
          /\ ip_rate_limit' = Unexpired(ip_rate_limit, t)
    /\ UNCHANGED <<dbUp, redisUp, captcha_tokens, suspicious_ips, ip_registry,
                   blocked_ips_list, IMAGE_GRID_SESSIONS, callers, resp, reqNo>>

\* ------------------------------------------------- token functions, alone

\* generate_captcha_token(api_key_id, captcha_type, user_id): a fresh random
\* token is stored; when the INSERT raises, the token is returned all the same.
generate_captcha_token(t, k, ctype) ==
    /\ t \notin DOMAIN captcha_tokens
    /\ captcha_tokens' =
          IF dbUp THEN InsertToken(captcha_tokens, t, k, ctype, now) ELSE captcha_tokens
    /\ resp' = [op |-> "generate_captcha_token", token |-> t, api_key_id |-> k,
                captcha_type |-> ctype]
    /\ reqNo' = 1 - reqNo
    /\ UNCHANGED <<now, dbUp, redisUp, otherStores, callers>>

\* verify_captcha_token(token, api_key_id), called on its own.
verify_captcha_token(t, k) ==
    /\ captcha_tokens' = verify_captcha_token_tbl(captcha_tokens, t, k, now, dbUp)
    /\ resp' = [op |-> "verify_captcha_token", token |-> t, api_key_id |-> k,
                valid |-> verify_captcha_token_ret(captcha_tokens, t, k, now, dbUp)[1],
                captcha_type |-> verify_captcha_token_ret(captcha_tokens, t, k, now, dbUp)[2]]
    /\ reqNo' = 1 - reqNo
    /\ UNCHANGED <<now, dbUp, redisUp, otherStores, callers>>

GenerateToken == \E t \in TokenIds, k \in KeyIds, ctype \in CaptchaTypes :
    generate_captcha_token(t, k, ctype)

VerifyToken == \E t \in TokenIds \cup {BogusToken}, k \in KeyIds :
    verify_captcha_token(t, k)

\* The token functions on their own: mint, validate, let time pass.
NextToken == GenerateToken \/ VerifyToken \/ Tick(TokenTimes)

SpecToken == Init /\ [][NextToken]_vars

\* ------------------------------------------------------------- api keys

\* os.getenv('DEMO_SECRET_KEY') of the deployment.
DEMO_SECRET_KEY == "demo_sk"

\* The active rows of api_keys, by key_id.  The limits are those of the
\* rows (rate_limit_per_minute, rate_limit_per_day).
api_keys ==
    [k \in ApiKeys \cup {DEMO_PUBLIC_KEY} |->
        [api_key_id |-> IF k = "keyA" THEN 1 ELSE IF k = "keyB" THEN 2 ELSE 3,
         user_id |-> IF k = "keyA" THEN 1 ELSE IF k = "keyB" THEN 2 ELSE 3,
         is_demo |-> k = DEMO_PUBLIC_KEY,
         secret_key |-> IF k = DEMO_PUBLIC_KEY THEN "" ELSE "sk",
         rate_limit_per_minute |-> 2,
         rate_limit_per_day |-> 3]]

\* verify_api_key_auto_secret(api_key) returns a row (not None).
verify_api_key_auto_secret(k, up) ==
    /\ up
    /\ k \in DOMAIN api_keys
    /\ IF api_keys[k].is_demo
       THEN DEMO_SECRET_KEY # ""
       ELSE api_keys[k].secret_key # ""

\* verify_api_key_with_secret(api_key, secret_key) returns a row (not None).
verify_api_key_with_secret_AnySecret(k, secret, up) == up /\ k \in DOMAIN api_keys

verify_api_key_with_secret(k, secret, up) ==
    /\ up
    /\ k \in DOMAIN api_keys
    /\ IF api_keys[k].is_demo
       THEN secret = DEMO_SECRET_KEY
       ELSE secret = api_keys[k].secret_key

\* --------------------------------------------------- per-key rate limiter

Units == {"minute", "day"}

\* current_time // 60 and current_time // 86400
WindowLen(unit) == IF unit = "minute" THEN MINUTE ELSE DAY

WindowId(unit, tnow) == tnow \div WindowLen(unit)

\* rkey("rate_limit", unit, api_key, str(window))
RateKey(unit, k, tnow) == <<unit, k, WindowId(unit, tnow)>>

\* int(redis.get(key)) if the key is there, else 0
RateCount(rl, key) == IF key \in DOMAIN rl THEN rl[key].count ELSE 0

\* count >= limit
Exceeded_Strict(count, limit) == count > limit

Exceeded(count, limit) == count >= limit

\* minute_exceeded or day_exceeded
RateExceeded(rl, k, perMinute, perDay, tnow) ==
    \/ Exceeded(RateCount(rl, RateKey("minute", k, tnow)), perMinute)
    \/ Exceeded(RateCount(rl, RateKey("day", k, tnow)), perDay)

\* pipe.incr(key); pipe.expire(key, ttl)
IncrExpire(rl, key, ttl, tnow) ==
    [x \in DOMAIN rl \cup {key} |->
        IF x = key THEN [count |-> RateCount(rl, key) + 1, exp |-> tnow + ttl]
        ELSE rl[x]]

\* check_rate_limit: TRUE when it raises HTTPException(429).  Without a
\* client (self.redis is None) nothing is read and the call is allowed.
check_rate_limit_429(rl, k, perMinute, perDay, tnow, up) ==
    up /\ RateExceeded(rl, k, perMinute, perDay, tnow)

\* check_rate_limit: the counters it leaves.
check_rate_limit_rl(rl, k, perMinute, perDay, tnow, up) ==
    IF up /\ ~RateExceeded(rl, k, perMinute, perDay, tnow)
    THEN IncrExpire(IncrExpire(rl, RateKey("minute", k, tnow), MINUTE, tnow),
                    RateKey("day", k, tnow), DAY, tnow)
    ELSE rl

\* ------------------------------------------------------ checkbox sessions

\* The document create_checkbox_session stores.  bot_attempts and status are
\* not among its keys: the readers take them with .get(..., 0) and
\* .get("status", "success"), which 0 and "success" stand for here.
NewSession ==
    [attempts |-> 0, low_score_attempts |-> 0, bot_attempts |-> 0,
     is_blocked |-> FALSE, status |-> "success", exp |-> 0]

\* create_checkbox_session(session_id, ttl=300)
create_checkbox_session(S, sid, tnow, up) ==
    IF up THEN Setex(S, sid, NewSession, SESSION_TTL, tnow) ELSE S

\* get_checkbox_session(session_id) returns a document (not None).
get_checkbox_session(S, sid, up) == up /\ sid \in DOMAIN S

\* is_checkbox_session_blocked(session_id)
is_checkbox_session_blocked(S, sid, up) ==
    get_checkbox_session(S, sid, up) /\ S[sid].is_blocked

\* session_data = redis_get_json(key) or {}
ReadSession(S, sid) == IF sid \in DOMAIN S THEN S[sid] ELSE NewSession

\* increment_checkbox_attempts, between its read and its write: the document
\* it builds from the one it read.
IncrementModify(doc, is_bot_suspected) ==
    LET a == [doc EXCEPT !.attempts = @ + 1] IN
    IF is_bot_suspected
    THEN LET b == [a EXCEPT !.bot_attempts = @ + 1] IN
         IF b.bot_attempts >= BOT_BLOCK_AT
         THEN [b EXCEPT !.is_blocked = TRUE, !.status = "blocked"]
         ELSE [b EXCEPT !.status = "bot_suspected"]
    ELSE [a EXCEPT !.status = "success"]

\* The keywords increment_checkbox_attempts declares, and those the call in
\* next_captcha passes.  A keyword that is not declared makes the call raise
\* TypeError before the body runs.
IncrementParams == {"session_id", "is_bot_suspected", "ttl"}

IncrementCallKeywords == {"is_low_score", "ttl"}

IncrementCallBinds == IncrementCallKeywords \subseteq IncrementParams

\* The keywords check_ip_rate_limit declares, and those the call in
\* next_captcha passes; the TypeError is caught there and the request goes on.
IpLimitParams ==
    {"ip_address", "rate_limit_per_minute", "rate_limit_per_hour", "rate_limit_per_day"}

IpLimitCallKeywords == IpLimitParams \cup {"api_key"}

IpLimitCallBinds == IpLimitCallKeywords \subseteq IpLimitParams

\* ------------------------------------------------- blocks of IP addresses

\* SELECT 1 FROM suspicious_ips WHERE api_key = %s AND ip_address = %s AND
\* is_blocked = 1 returns a row.  When the query raises, the guard is skipped.
GateBlocks_Never(tbl, k, ip, up) == FALSE

GateBlocks(tbl, k, ip, up) == up /\ <<k, ip>> \in tbl

\* IPRateLimiter.block_ip returns True.  `import json` inside the branch of
\* an existing document makes json a local name of the function: without a
\* document, json.dumps raises UnboundLocalError, which is caught, before
\* anything is written.
block_ip_ok(reg, ip, up) == up /\ ip \in DOMAIN reg

\* IPRateLimiter.block_ip: the registry it leaves.
block_ip_reg(reg, ip, up) ==
    IF block_ip_ok(reg, ip, up) THEN [reg EXCEPT ![ip].is_blocked = TRUE] ELSE reg

\* IPRateLimiter.block_ip: the blocked_ips_list it leaves.
block_ip_list(reg, lst, ip, up) ==
    IF block_ip_ok(reg, ip, up) THEN lst \cup {ip} ELSE lst

\* IPRateLimiter.unblock_ip: the registry it leaves.
unblock_ip_reg(reg, ip, up) ==
    IF up /\ ip \in DOMAIN reg THEN [reg EXCEPT ![ip].is_blocked = FALSE] ELSE reg

\* IPRateLimiter.unblock_ip: the blocked_ips_list it leaves.
unblock_ip_list(lst, ip, up) == IF up THEN lst \ {ip} ELSE lst

\* ------------------------------------------------------------ HTTP handlers

\* confidence_score values: the 75.0 the handler takes when the ML service
\* fails, and an answer of the service in the band of suspected bots.
Scores == {75, 95}

\* Instants at which the HTTP specification observes the clock: the start,
\* and the start of the next minute window.
HttpTimes == {0, 60}

\* User-Agent headers: none, a desktop browser, a phone.
DesktopAgent == "Mozilla/5.0 (X11; Linux x86_64)"

PhoneAgent == "Mozilla/5.0 (iPhone; CPU iPhone OS 17_0 like Mac OS X) Mobile/15E148"

UserAgents == {"", DesktopAgent, PhoneAgent}

\* _is_mobile_user_agent: False without a header; otherwise whether one of the
\* patterns (mobile, android, iphone, ...) is found in the header.
is_mobile_user_agent(ua) == ua # "" /\ ua \in {PhoneAgent}

\* SAVE_BEHAVIOR_TO_MONGO with BEHAVIOR_MONGO_URI and BEHAVIOR_MONGO_DB set:
\* the deployment in which behaviour documents are collected.
SAVE_BEHAVIOR_TO_MONGO == TRUE

\* _save_behavior_to_mongo: whether the call inserts the behaviour document.
save_behavior_to_mongo(ua) == SAVE_BEHAVIOR_TO_MONGO /\ ~is_mobile_user_agent(ua)

\* The insert into behavior_data_score: skipped for a mobile User-Agent.
save_score(ua) == SAVE_BEHAVIOR_TO_MONGO /\ ~is_mobile_user_agent(ua)

\* The key check of next_captcha: the demo key needs a demo row; another key
\* is checked alone when no X-Secret-Key is sent, with the secret otherwise.
NextCaptchaKeyOk(k, secret, up) ==
    IF k = DEMO_PUBLIC_KEY
    THEN verify_api_key_auto_secret(k, up) /\ api_keys[k].is_demo
    ELSE IF secret = ""
         THEN verify_api_key_auto_secret(k, up)
         ELSE verify_api_key_with_secret(k, secret, up)

\* POST /api/next-captcha.  In the order of the handler: the suspicious_ips
\* guard (403); check_ip_rate_limit, whose call raises TypeError, caught;
\* the key check (401); check_rate_limit (429; the handler then calls
\* _save_suspicious_ip_to_mysql, which IPRateLimiter does not have: the
\* AttributeError is caught); the checkbox session is read, or created; a
\* blocked session is answered "blocked" with empty captcha_type and
\* next_captcha; the behaviour document is saved, the ML service called and
\* the score record saved, both only for a User-Agent that is not mobile;
\* increment_checkbox_attempts is called with a keyword it does not declare:
\* TypeError, not caught, 500.  The lines after that call (the choice of
\* captcha_type, the token, the payload with attempts) are not reached.
next_captcha(k, secret, ip, sid, score, ua) ==
    LET gate == GateBlocks(suspicious_ips, k, ip, dbUp)
        keyOk == NextCaptchaKeyOk(k, secret, dbUp)
        perMinute == api_keys[k].rate_limit_per_minute
        perDay == api_keys[k].rate_limit_per_day
        limited == check_rate_limit_429(rate_limit, k, perMinute, perDay, now, redisUp)
        S1 == IF get_checkbox_session(checkbox_sessions, sid, redisUp)
              THEN checkbox_sessions
              ELSE create_checkbox_session(checkbox_sessions, sid, now, redisUp)
        stage == IF gate THEN "guard"
                 ELSE IF ~keyOk THEN "key"
                 ELSE IF limited THEN "rate"
                 ELSE IF is_checkbox_session_blocked(S1, sid, redisUp) THEN "blocked"
                 ELSE "attempts"
    IN
    /\ ~IpLimitCallBinds
    /\ ~IncrementCallBinds
    /\ rate_limit' =
          IF stage \in {"guard", "key"} THEN rate_limit
          ELSE check_rate_limit_rl(rate_limit, k, perMinute, perDay, now, redisUp)
    /\ checkbox_sessions' =
          IF stage \in {"guard", "key", "rate"} THEN checkbox_sessions ELSE S1
    /\ resp' = [op |-> "next_captcha", api_key |-> k, ip |-> ip, session_id |-> sid,
                stage |-> stage,
                status |-> CASE stage = "guard" -> 403
                             [] stage = "key" -> 401
                             [] stage = "rate" -> 429
                             [] stage = "blocked" -> 200
                             [] stage = "attempts" -> 500,
                ml_called |-> stage = "attempts",
                score |-> IF stage = "attempts" THEN score ELSE 0,
                user_agent |-> ua,
                behavior_saved |-> stage = "attempts" /\ save_behavior_to_mongo(ua),
                score_saved |-> stage = "attempts" /\ save_score(ua),
                captcha_type |-> IF stage = "blocked" THEN "" ELSE "None",
                next_captcha |-> IF stage = "blocked" THEN "" ELSE "None",
                captcha_token |-> "None"]
    /\ reqNo' = 1 - reqNo
    /\ UNCHANGED <<now, dbUp, redisUp, captcha_tokens, suspicious_ips, ip_registry,
                   blocked_ips_list, challenges, ip_rate_limit,
                   IMAGE_GRID_SESSIONS, callers>>

\* verify_admin_access: any key verify_api_key_auto_secret accepts.
verify_admin_access(k, up) == verify_api_key_auto_secret(k, up)

\* POST /api/admin/block-ip: 401 without admin access, 200 when
\* ip_rate_limiter.block_ip returns True, 500 otherwise.
admin_block_ip(k, ip) ==
    LET admin == verify_admin_access(k, dbUp) IN
    /\ ip_registry' = IF admin THEN block_ip_reg(ip_registry, ip, redisUp) ELSE ip_registry
    /\ blocked_ips_list' =
          IF admin THEN block_ip_list(ip_registry, blocked_ips_list, ip, redisUp)
          ELSE blocked_ips_list
    /\ resp' = [op |-> "block_ip", api_key |-> k, ip |-> ip,
                status |-> IF ~admin THEN 401
                           ELSE IF block_ip_ok(ip_registry, ip, redisUp) THEN 200
                           ELSE 500]
    /\ reqNo' = 1 - reqNo
    /\ UNCHANGED <<now, dbUp, redisUp, captcha_tokens, suspicious_ips,
                   checkbox_sessions, challenges, rate_limit, ip_rate_limit,
                   IMAGE_GRID_SESSIONS, callers>>

\* POST /api/admin/unblock-ip: 401 without admin access, 200 when
\* ip_rate_limiter.unblock_ip returns True, 500 otherwise.
admin_unblock_ip(k, ip) ==
    LET admin == verify_admin_access(k, dbUp) IN
    /\ ip_registry' = IF admin THEN unblock_ip_reg(ip_registry, ip, redisUp) ELSE ip_registry
    /\ blocked_ips_list' =
          IF admin THEN unblock_ip_list(blocked_ips_list, ip, redisUp)
          ELSE blocked_ips_list
    /\ resp' = [op |-> "unblock_ip", api_key |-> k, ip |-> ip,
                status |-> IF ~admin THEN 401 ELSE IF redisUp THEN 200 ELSE 500]
    /\ reqNo' = 1 - reqNo
    /\ UNCHANGED <<now, dbUp, redisUp, captcha_tokens, suspicious_ips,
                   checkbox_sessions, challenges, rate_limit, ip_rate_limit,
                   IMAGE_GRID_SESSIONS, callers>>

NextCaptcha ==
    \E k \in ApiKeys \cup {UnknownKey}, secret \in Secrets \ {"sk"}, ip \in IPs,
       sid \in SessionIds, score \in Scores :
        next_captcha(k, secret, ip, sid, score, DesktopAgent)

AdminBlockIp == \E k \in {"keyA", UnknownKey}, ip \in IPs : admin_block_ip(k, ip)

AdminUnblockIp == \E k \in {"keyA", UnknownKey}, ip \in IPs : admin_unblock_ip(k, ip)

\* The rows with is_blocked = 1 the program may find in suspicious_ips.
BlockedRows == {<<"keyA", "ip1">>}

\* The table the program finds: any set of those rows.
InitHttp == InitCommon /\ suspicious_ips \in SUBSET BlockedRows

\* The HTTP surface around /api/next-captcha and the admin block operations.
Next == NextCaptcha \/ AdminBlockIp \/ AdminUnblockIp \/ Tick(HttpTimes)

Spec == InitHttp /\ [][Next]_vars

\* ------------------------------------------------------------- challenges

\* The Redis key prefixes of the three challenge services.
ChallengeKinds == {"imagegrid", "abstract", "handwriting"}

\* The captcha_type a token for the challenge of a service carries.
TokenTypeOf(kind) == IF kind = "imagegrid" THEN "image" ELSE kind

\* create_imagegrid_challenge, create_abstract_captcha and
\* create_handwriting_challenge with a client of the KV store: the document
\* is stored under rkey(kind, challenge_id) with attempts 0 and CAPTCHA_TTL.
\* The answer stands for correct_cells, is_positive or answer_classes.
create_challenge(C, kind, cid, answer, tnow) ==
    Setex(C, <<kind, cid>>,
          [answer |-> answer, attempts |-> 0, created_at |-> tnow, exp |-> 0],
          CAPTCHA_TTL, tnow)

\* redis_incr_attempts(key): val = redis_get_json(key) or {}, add one to
\* val["attempts"] (0 when absent), SETEX with the remaining TTL when
\* r.ttl(key) is positive, with 60 otherwise.  Without the key, the document
\* written holds attempts alone.
redis_incr_attempts(C, key, tnow) ==
    LET val == IF key \in DOMAIN C THEN C[key] ELSE [attempts |-> 0, exp |-> 0]
        remain == IF key \in DOMAIN C THEN C[key].exp - tnow ELSE 0 - 2
        ttl == IF remain > 0 THEN remain ELSE 60
    IN Setex(C, key, [val EXCEPT !.attempts = @ + 1], ttl, tnow)

\* if ok or attempts >= 1
DeleteAfter_Never(ok, attempts) == FALSE

DeleteAfter(ok, attempts) == ok \/ attempts >= 1

\* verify_imagegrid, verify_abstract, verify_handwriting with a client of
\* the KV store: what they answer.
verify_challenge_ret(C, kind, cid, answer) ==
    IF <<kind, cid>> \notin DOMAIN C THEN "not_found"
    ELSE IF answer = C[<<kind, cid>>].answer THEN "pass"
    ELSE "fail"

\* verify_imagegrid, verify_abstract, verify_handwriting: the documents
\* they leave.
verify_challenge_kv(C, kind, cid, answer, tnow) ==
    LET key == <<kind, cid>> IN
    IF key \notin DOMAIN C THEN C
    ELSE LET C1 == redis_incr_attempts(C, key, tnow) IN
         IF DeleteAfter(answer = C[key].answer, C1[key].attempts)
         THEN Del(C1, key)
         ELSE C1

\* -------------------------------------------------------- verify endpoints

\* bool(x) of a Python tuple: a tuple is false only when it is empty.
Truthy(tuple) == Len(tuple) # 0

\* The key check of the verify endpoints.  /api/imagecaptcha-verify and
\* /api/handwriting-verify take the demo key alone; otherwise, and always
\* for /api/abstract-verify, X-Secret-Key is required and checked.
VerifyKeyOk(kind, k, secret, up) ==
    IF kind # "abstract" /\ k = DEMO_PUBLIC_KEY
    THEN verify_api_key_auto_secret(k, up) /\ api_keys[k].is_demo
    ELSE secret # "" /\ verify_api_key_with_secret(k, secret, up)

\* What the OCR service read from the drawing, or its failure.
OcrFailed == "ocr_failed"

\* ABSTRACT_HMAC_SECRET of the deployment.
ABSTRACT_HMAC_SECRET == "change-this-secret"

\* hmac.new(key, msg, sha256).hexdigest(): the digest stands as the pair of
\* what went into it; two digests are equal when key and message are.
HmacSha256(key, msg) == <<key, msg>>

\* sign_image_token(challenge_id, image_index): msg is
\* "{challenge_id}:{image_index}".
sign_image_token(cid, i) == HmacSha256(ABSTRACT_HMAC_SECRET, <<cid, i>>)

\* verify_image_token(challenge_id, image_index, signature)
verify_image_token(cid, i, signature) == sign_image_token(cid, i) = signature

\* An element of req.signatures: a string, holding hexadecimal digits.
SigString(digest) == [type |-> "str", hex |-> digest]

\* req.signatures: None, or a list.
NoSignatures == [present |-> FALSE, list |-> <<>>]

\* for i, sig in enumerate(req.signatures): if not isinstance(sig, str)
SignatureTypesOk(signatures) ==
    signatures.present => \A i \in 1..Len(signatures.list) : signatures.list[i].type = "str"

\* POST /api/imagecaptcha-verify, /api/abstract-verify and
\* /api/handwriting-verify.  The key check (401); a missing captcha_token
\* (400); token_valid = verify_captcha_token(...), a tuple, tested with
\* `if not token_valid` (400); for abstract the signatures, of which only
\* the type is looked at; for handwriting the OCR call, whose failure is
\* answered without adjudication; the service adjudicates.
verify_endpoint(kind, k, secret, token, cid, answer, signatures) ==
    LET keyOk == VerifyKeyOk(kind, k, secret, dbUp)
        kid == api_keys[k].api_key_id
        token_valid == verify_captcha_token_ret(captcha_tokens, token, kid, now, dbUp)
        stage == IF ~keyOk THEN "key"
                 ELSE IF token = "" THEN "token_required"
                 ELSE IF ~Truthy(token_valid) THEN "invalid_token"
                 ELSE IF kind = "abstract" /\ ~SignatureTypesOk(signatures)
                      THEN "invalid_signature_type"
                 ELSE IF kind = "handwriting" /\ answer = OcrFailed THEN "ocr_failed"
                 ELSE "adjudicated"
    IN
    /\ captcha_tokens' =
          IF stage \in {"key", "token_required"} THEN captcha_tokens
          ELSE verify_captcha_token_tbl(captcha_tokens, token, kid, now, dbUp)
    /\ challenges' =
          IF stage = "adjudicated"
          THEN verify_challenge_kv(challenges, kind, cid, answer, now)
          ELSE challenges
    /\ resp' = [op |-> "verify", kind |-> kind, api_key |-> k, secret |-> secret,
                token |-> token, challenge_id |-> cid, signatures |-> signatures,
                status |-> CASE stage = "key" -> 401
                             [] stage \in {"token_required", "invalid_token"} -> 400
                             [] OTHER -> 200,
                outcome |-> IF stage = "adjudicated"
                            THEN verify_challenge_ret(challenges, kind, cid, answer)
                            ELSE stage]
    /\ reqNo' = 1 - reqNo
    /\ UNCHANGED <<now, dbUp, redisUp, suspicious_ips, ip_registry,
                   blocked_ips_list, checkbox_sessions, rate_limit, ip_rate_limit,
                   IMAGE_GRID_SESSIONS, callers>>

\* A challenge is created by one of the three services.
CreateChallenge ==
    \E kind \in ChallengeKinds, cid \in ChallengeIds :
        /\ redisUp
        /\ <<kind, cid>> \notin DOMAIN challenges
        /\ challenges' = create_challenge(challenges, kind, cid, "right", now)
        /\ resp' = [op |-> "create_challenge", kind |-> kind, challenge_id |-> cid]
        /\ reqNo' = 1 - reqNo
        /\ UNCHANGED <<now, dbUp, redisUp, captcha_tokens, suspicious_ips, ip_registry,
                       blocked_ips_list, checkbox_sessions, rate_limit, ip_rate_limit,
                   IMAGE_GRID_SESSIONS, callers>>

VerifyEndpoint ==
    \E kind \in ChallengeKinds, k \in ApiKeys, secret \in Secrets \ {""},
       token \in {"tokA", BogusToken}, cid \in ChallengeIds,
       answer \in Answers \cup {OcrFailed} :
        /\ answer = OcrFailed => kind = "handwriting"
        /\ verify_endpoint(kind, k, secret, token, cid, answer, NoSignatures)

\* A token is minted as generate_captcha_token mints it.
MintToken == \E k \in KeyIds, ctype \in CaptchaTypes :
    generate_captcha_token("tokA", k, ctype)

\* Instants at which the verify specification observes the clock: the start,
\* and an instant after the expiry of a token minted at the start.
VerifyTimes == {0, 601}

\* The verify endpoints, with challenges created and tokens minted.
NextVerify == CreateChallenge \/ MintToken \/ VerifyEndpoint \/ Tick(VerifyTimes)

SpecVerify == Init /\ [][NextVerify]_vars

\* ------------------------------- increment_checkbox_attempts, concurrently

\* Instants at which the session specification observes the clock: the
\* start, and the expiry of a session written at the start.
SessionTimes == {0, 300}

\* A session is created as next_captcha creates it: when none is found.
SessionCreate(sid) ==
    /\ ~get_checkbox_session(checkbox_sessions, sid, redisUp)
    /\ checkbox_sessions' = create_checkbox_session(checkbox_sessions, sid, now, redisUp)
    /\ resp' = [op |-> "create_checkbox_session", session_id |-> sid]
    /\ reqNo' = 1 - reqNo
    /\ UNCHANGED <<now, dbUp, redisUp, captcha_tokens, suspicious_ips, ip_registry,
                   blocked_ips_list, challenges, rate_limit, ip_rate_limit,
                   IMAGE_GRID_SESSIONS, callers>>

\* increment_checkbox_attempts(session_id, is_bot_suspected), first half: a
\* worker reads the document (redis_get_json(key) or {}).
IncrementRead(w, sid, is_bot_suspected) ==
    /\ redisUp
    /\ callers[w].pc = "idle"
    /\ ReadSession(checkbox_sessions, sid).attempts < MaxAttempts
    /\ callers' = [callers EXCEPT ![w] =
          [pc |-> "read", session_id |-> sid, is_bot_suspected |-> is_bot_suspected,
           session_data |-> ReadSession(checkbox_sessions, sid)]]
    /\ UNCHANGED <<now, dbUp, redisUp, captcha_tokens, otherStores, resp, reqNo>>

\* increment_checkbox_attempts, second half: the worker stores the document
\* it built from the one it read (redis_set_json(key, session_data, ttl)) and
\* returns status and is_blocked.
IncrementWrite(w) ==
    /\ callers[w].pc = "read"
    /\ LET doc == IncrementModify(callers[w].session_data, callers[w].is_bot_suspected) IN
       /\ checkbox_sessions' =
             Setex(checkbox_sessions, callers[w].session_id, doc, SESSION_TTL, now)
       /\ resp' = [op |-> "increment_checkbox_attempts",
                   session_id |-> callers[w].session_id,
                   status |-> doc.status, is_blocked |-> doc.is_blocked]
    /\ callers' = [callers EXCEPT ![w] = Idle]
    /\ reqNo' = 1 - reqNo
    /\ UNCHANGED <<now, dbUp, redisUp, captcha_tokens, suspicious_ips, ip_registry,
                   blocked_ips_list, challenges, rate_limit,
                   ip_rate_limit,
                   IMAGE_GRID_SESSIONS>>

\* Two workers run increment_checkbox_attempts on one session, created as
\* next_captcha creates it; their store accesses interleave.
NextSession ==
    \/ SessionCreate("s1")
    \/ \E w \in Workers, b \in BOOLEAN : IncrementRead(w, "s1", b)
    \/ \E w \in Workers : IncrementWrite(w)
    \/ Tick(SessionTimes)

SpecSession == Init /\ [][NextSession]_vars

\* ------------------------------------------------ check_rate_limit, alone

\* Instants at which the limiter specification observes the clock: both
\* ends of the first minute window, the next two minute windows, and the
\* start of the next day window.
RateTimes == {0, 59, 60, 120, 86400}

\* rate_limiter.check_rate_limit(api_key, rate_limit_per_minute,
\* rate_limit_per_day) with the limits of the key's row, as next_captcha calls
\* it.
check_rate_limit(k) ==
    LET perMinute == api_keys[k].rate_limit_per_minute
        perDay == api_keys[k].rate_limit_per_day
    IN
    /\ rate_limit' = check_rate_limit_rl(rate_limit, k, perMinute, perDay, now, redisUp)
    /\ resp' = [op |-> "check_rate_limit", api_key |-> k,
                status |-> IF check_rate_limit_429(rate_limit, k, perMinute, perDay, now, redisUp)
                           THEN 429 ELSE 200]
    /\ reqNo' = 1 - reqNo
    /\ UNCHANGED <<now, dbUp, redisUp, captcha_tokens, suspicious_ips, ip_registry,
                   blocked_ips_list, checkbox_sessions, challenges, ip_rate_limit,
                   IMAGE_GRID_SESSIONS, callers>>

CheckRateLimit == \E k \in ApiKeys : check_rate_limit(k)

\* The per-key limiter on its own, called by one request at a time.
NextRate == CheckRateLimit \/ Tick(RateTimes)

SpecRate == Init /\ [][NextRate]_vars


\* ------------------------------------------- limiters and a failing KV store

HOUR == 3600

\* The limits next_captcha passes to check_ip_rate_limit.
IP_PER_MINUTE == 10
IP_PER_HOUR == 500
IP_PER_DAY == 2000

IpUnits == {"minute", "hour", "day"}

\* current_time // 60, // 3600 and // 86400
IpWindowLen(unit) ==
    CASE unit = "minute" -> MINUTE
      [] unit = "hour" -> HOUR
      [] unit = "day" -> DAY

\* rkey("ip_rate_limit", unit, ip_address, str(window))
IpRateKey(unit, ip, tnow) == <<unit, ip, tnow \div IpWindowLen(unit)>>

\* minute_exceeded or hour_exceeded or day_exceeded
IpRateExceeded(rl, ip, perMinute, perHour, perDay, tnow) ==
    \/ Exceeded(RateCount(rl, IpRateKey("minute", ip, tnow)), perMinute)
    \/ Exceeded(RateCount(rl, IpRateKey("hour", ip, tnow)), perHour)
    \/ Exceeded(RateCount(rl, IpRateKey("day", ip, tnow)), perDay)

\* The KV operation of a limiter call at which the store raises, if any: a
\* read of the counters, the increment pipeline before or after the store
\* has applied it, the operations of _mark_suspicious_ip.
KvFailures == {"none", "get", "pipeline", "pipeline_reply"}

IpKvFailures == KvFailures \cup {"mark"}

\* The reads of the counters succeed: there is a client and get does not raise.
KvReadOk_IgnoreFailure(up, fail) == TRUE

KvReadOk(up, fail) == up /\ fail # "get"

\* What actually went wrong in the call: no client, or the operation that
\* raised.  The pipeline runs only when no limit is exceeded, and
\* _mark_suspicious_ip (marks: the limiter has one) only when one is.
RaisedAt(up, fail, exceeded, marks) ==
    IF ~up THEN "no_client"
    ELSE IF fail = "get" THEN "get"
    ELSE IF exceeded THEN (IF marks /\ fail = "mark" THEN "mark" ELSE "none")
    ELSE IF fail \in {"pipeline", "pipeline_reply"} THEN "pipeline"
    ELSE "none"

\* max(0, limit - count - 1) after the pipeline; the limit itself in the
\* two fail-open returns.
Remaining(count, limit, raised) ==
    IF raised # "none" THEN limit
    ELSE IF limit - count - 1 > 0 THEN limit - count - 1 ELSE 0

\* min(reset_time_minute, reset_time_hour, reset_time_day)
Min(S) == CHOOSE x \in S : \A y \in S : x <= y

RetryAfter(units, tnow) ==
    Min({ IpWindowLen(u) - (tnow % IpWindowLen(u)) : u \in units })

\* check_ip_rate_limit: TRUE when it raises HTTPException(429)
check_ip_rate_limit_429(rl, ip, perMinute, perHour, perDay, tnow, up, fail) ==
    KvReadOk(up, fail) /\ IpRateExceeded(rl, ip, perMinute, perHour, perDay, tnow)

\* check_ip_rate_limit: the counters it leaves
check_ip_rate_limit_rl(rl, ip, perMinute, perHour, perDay, tnow, up, fail) ==
    IF /\ KvReadOk(up, fail)
       /\ ~IpRateExceeded(rl, ip, perMinute, perHour, perDay, tnow)
       /\ fail # "pipeline"
    THEN IncrExpire(IncrExpire(IncrExpire(rl,
             IpRateKey("minute", ip, tnow), MINUTE, tnow),
             IpRateKey("hour", ip, tnow), HOUR, tnow),
             IpRateKey("day", ip, tnow), DAY, tnow)
    ELSE rl

\* _mark_suspicious_ip: the registry it leaves.  With a document the
\* violation is appended and violation_count is the new length; without
\* one, json is a local name that no import has bound when json.dumps is
\* reached: UnboundLocalError, caught and logged, nothing stored.
mark_suspicious_ip(reg, ip, details, tnow, up, fail) ==
    IF up /\ fail # "mark" /\ ip \in DOMAIN reg
    THEN LET violations == Append(reg[ip].violations, details) IN
         [reg EXCEPT ![ip] = [@ EXCEPT !.violations = violations,
                                       !.last_violation = tnow,
                                       !.violation_count = Len(violations)]]
    ELSE reg

\* ip_rate_limiter.check_ip_rate_limit(ip_address, rate_limit_per_minute,
\* rate_limit_per_hour, rate_limit_per_day), called with the parameters it
\* declares and the limits of next_captcha.
check_ip_rate_limit(ip, fail) ==
    LET exceeded == IpRateExceeded(ip_rate_limit, ip, IP_PER_MINUTE, IP_PER_HOUR,
                                   IP_PER_DAY, now)
        limited == check_ip_rate_limit_429(ip_rate_limit, ip, IP_PER_MINUTE, IP_PER_HOUR,
                                           IP_PER_DAY, now, redisUp, fail)
        raised == RaisedAt(redisUp, fail, exceeded, TRUE)
        left(unit, limit) ==
            Remaining(RateCount(ip_rate_limit, IpRateKey(unit, ip, now)), limit, raised)
    IN
    /\ ip_rate_limit' = check_ip_rate_limit_rl(ip_rate_limit, ip, IP_PER_MINUTE, IP_PER_HOUR,
                                               IP_PER_DAY, now, redisUp, fail)
    /\ ip_registry' = IF limited
                      THEN mark_suspicious_ip(ip_registry, ip, "rate_limit_exceeded", now,
                                              redisUp, fail)
                      ELSE ip_registry
    /\ resp' = IF limited
               THEN [op |-> "check_ip_rate_limit", ip |-> ip, raised |-> raised,
                     status |-> 429, retry_after_seconds |-> RetryAfter(IpUnits, now)]
               ELSE [op |-> "check_ip_rate_limit", ip |-> ip, raised |-> raised,
                     status |-> 200,
                     minute_remaining |-> left("minute", IP_PER_MINUTE),
                     hour_remaining |-> left("hour", IP_PER_HOUR),
                     day_remaining |-> left("day", IP_PER_DAY)]
    /\ reqNo' = 1 - reqNo
    /\ UNCHANGED <<now, dbUp, redisUp, captcha_tokens, suspicious_ips, blocked_ips_list,
                   checkbox_sessions, challenges, rate_limit,
                   IMAGE_GRID_SESSIONS, callers>>

\* rate_limiter.check_rate_limit(api_key, rate_limit_per_minute,
\* rate_limit_per_day) with the limits of the key's row, the store raising
\* at one of its operations.
check_rate_limit_kv(k, fail) ==
    LET perMinute == api_keys[k].rate_limit_per_minute
        perDay == api_keys[k].rate_limit_per_day
        exceeded == RateExceeded(rate_limit, k, perMinute, perDay, now)
        readOk == KvReadOk(redisUp, fail)
        limited == check_rate_limit_429(rate_limit, k, perMinute, perDay, now, readOk)
        raised == RaisedAt(redisUp, fail, exceeded, FALSE)
        left(unit, limit) ==
            Remaining(RateCount(rate_limit, RateKey(unit, k, now)), limit, raised)
    IN
    /\ rate_limit' = IF fail = "pipeline" THEN rate_limit
                     ELSE check_rate_limit_rl(rate_limit, k, perMinute, perDay, now, readOk)
    /\ resp' = IF limited
               THEN [op |-> "check_rate_limit", api_key |-> k, raised |-> raised,
                     status |-> 429, retry_after_seconds |-> RetryAfter(Units, now)]
               ELSE [op |-> "check_rate_limit", api_key |-> k, raised |-> raised,
                     status |-> 200,
                     minute_remaining |-> left("minute", perMinute),
                     day_remaining |-> left("day", perDay)]
    /\ reqNo' = 1 - reqNo
    /\ UNCHANGED <<now, dbUp, redisUp, captcha_tokens, suspicious_ips, ip_registry,
                   blocked_ips_list, checkbox_sessions, challenges, ip_rate_limit,
                   IMAGE_GRID_SESSIONS, callers>>

\* The process starts again: RateLimiter() and IPRateLimiter() take
\* get_redis() once, at construction, a client or None; the store keeps
\* what it holds, the dicts of the process are empty again.
Restart ==
    /\ redisUp' \in BOOLEAN
    /\ redisUp' # redisUp
    /\ callers' = [w \in Workers |-> Idle]
    /\ IMAGE_GRID_SESSIONS' = Empty
    /\ UNCHANGED <<now, dbUp, captcha_tokens, suspicious_ips, ip_registry, blocked_ips_list,
                   checkbox_sessions, challenges, rate_limit, ip_rate_limit, resp, reqNo>>

\* Instants at which the specification of the two limiters observes the
\* clock: both ends of the first minute window, and the next window.
LimiterTimes == {0, 59, 60}

CheckIpRateLimit == \E fail \in IpKvFailures : check_ip_rate_limit("ip1", fail)

CheckRateLimitKv == \E fail \in KvFailures : check_rate_limit_kv("keyA", fail)

\* The two limiters called one request at a time by one client, over a
\* store that may raise at any operation.
NextLimiters == CheckIpRateLimit \/ CheckRateLimitKv \/ Restart \/ Tick(LimiterTimes)

SpecLimiters == Init /\ [][NextLimiters]_vars

\* ------------------------------------- challenge services, with their data

\* The longest list of selections a client sends.
MaxSel == 2

\* The most challenges pending at once.
MaxPending == 1

\* Sequences over S of length up to n.
SeqsUpTo(S, n) == UNION { [1..k -> S] : k \in 0..n }

\* Cells of the grid, and the correct_cells of the labelled records.
Cells == {1, 2}

CorrectCellLists == {<<1, 2>>, <<2>>}

\* is_positive lists, and indexes a client may select: those of the list
\* and one past its end.
IsPositiveLists == {<<TRUE, FALSE>>, <<TRUE, TRUE>>}

AbstractIndexes == {0, 1, 2}

\* TARGET_TO_ANSWER_MAPPING: "goldfish" stands for the key whose answers are
\* itself and "fish", "zebra_finch" for a key whose only answer is "bird".
TARGET_TO_ANSWER_MAPPING ==
    [goldfish |-> <<"goldfish", "fish">>, zebra_finch |-> <<"bird">>]

\* Target classes: two of the mapping, one without a mapping, and the ""
\* of a challenge built from an empty manifest.
TargetClasses == {"goldfish", "zebra_finch", "whale", ""}

\* Normalized OCR texts.
Texts == {"goldfish", "fish", "bird", "whale", ""}

\* get_answer_classes(target_class)
get_answer_classes(target_class) ==
    IF target_class = "" THEN <<>>
    ELSE IF target_class \in DOMAIN TARGET_TO_ANSWER_MAPPING
         THEN TARGET_TO_ANSWER_MAPPING[target_class]
         ELSE <<target_class>>

\* set(xs)
ToSet(xs) == { xs[i] : i \in DOMAIN xs }

\* sorted(S)
RECURSIVE Sorted(_)
Sorted(S) == IF S = {} THEN <<>> ELSE <<Min(S)>> \o Sorted(S \ {Min(S)})

\* sorted(set(int(x) for x in xs))
SortedSet_AsGiven(xs) == xs

SortedSet(xs) == Sorted(ToSet(xs))

\* {i for i, flag in enumerate(is_positive) if flag}
positives_set(is_positive) == { i \in 0..(Len(is_positive) - 1) : is_positive[i + 1] }

\* positives_set == selections_set
SetsMatch_Subset(a, b) == b \subseteq a

SetsMatch(a, b) == a = b

\* text_norm in set([str(x) for x in allowed_answers])
InAnswers_TargetOnly(text_norm, doc) == text_norm = doc.target_class

InAnswers(text_norm, doc) ==
    LET allowed_answers == IF doc.answer_classes # <<>> THEN doc.answer_classes
                           ELSE get_answer_classes(doc.target_class)
    IN text_norm \in ToSet(allowed_answers)

\* session.is_expired(), (time.time() - session.created_at) > session.ttl_seconds
IsExpired_Never(created_at, ttl_seconds, tnow) == FALSE

IsExpired(created_at, ttl_seconds, tnow) == tnow - created_at > ttl_seconds

\* The keys of the bodies the services return.
CreateBody(kind) ==
    CASE kind = "imagegrid" ->
            {"challenge_id", "url", "ttl", "grid_size", "target_label", "question"}
      [] kind = "abstract" -> {"challenge_id", "question", "ttl", "images"}
      [] kind = "handwriting" -> {"challenge_id", "samples", "ttl", "message"}

VerifyBody(kind, ok) ==
    CASE kind = "imagegrid" ->
            {"success", "attempts", "target_label", "correct_cells", "user_selections",
             "boxes"} \cup (IF ok THEN {} ELSE {"downshift"})
      [] kind = "abstract" -> {"success", "attempts", "target_class", "keywords", "expired"}
      [] kind = "handwriting" -> {"success"}

RefusedBody == {"success", "message"}

\* What the service adjudicates: the stored answer against what was sent.
Adjudicate(kind, answer, sent) ==
    CASE kind = "imagegrid" -> SortedSet(sent) = SortedSet(answer)
      [] kind = "abstract" -> SetsMatch(positives_set(answer), ToSet(sent))
      [] kind = "handwriting" -> InAnswers(sent, answer)

\* The KV path of a verify: increment attempts, delete on `ok or attempts >= 1`.
AdjudicateKv(C, key, ok, tnow) ==
    LET C1 == redis_incr_attempts(C, key, tnow) IN
    IF DeleteAfter(ok, C1[key].attempts) THEN Del(C1, key) ELSE C1

\* The in-memory path of verify_imagegrid: the session is popped when it
\* has expired, and on `ok or attempts >= 1` after session.attempts += 1.
AdjudicateMemory(M, cid, ok) ==
    IF DeleteAfter(ok, M[cid].attempts + 1) THEN Del(M, cid)
    ELSE [M EXCEPT ![cid].attempts = @ + 1]

\* create_imagegrid_challenge, create_abstract_captcha,
\* create_handwriting_challenge: the document goes to the KV store when
\* get_redis() gives a client; without one the image-grid session goes to
\* IMAGE_GRID_SESSIONS and the other two challenges are stored nowhere.
create_service(kind, cid, answer) ==
    /\ <<kind, cid>> \notin DOMAIN challenges
    /\ cid \notin DOMAIN IMAGE_GRID_SESSIONS
    /\ Cardinality(DOMAIN challenges) + Cardinality(DOMAIN IMAGE_GRID_SESSIONS) < MaxPending
    /\ challenges' = IF redisUp THEN create_challenge(challenges, kind, cid, answer, now)
                     ELSE challenges
    /\ IMAGE_GRID_SESSIONS' =
          IF ~redisUp /\ kind = "imagegrid"
          THEN [x \in DOMAIN IMAGE_GRID_SESSIONS \cup {cid} |->
                   IF x = cid
                   THEN [correct_cells |-> answer, created_at |-> now,
                         ttl_seconds |-> CAPTCHA_TTL, attempts |-> 0]
                   ELSE IMAGE_GRID_SESSIONS[x]]
          ELSE IMAGE_GRID_SESSIONS
    /\ resp' = [op |-> "create", kind |-> kind, challenge_id |-> cid, ttl |-> CAPTCHA_TTL,
                path |-> IF redisUp THEN "kv" ELSE "memory",
                body |-> CreateBody(kind)]
    /\ reqNo' = 1 - reqNo
    /\ UNCHANGED <<now, dbUp, redisUp, captcha_tokens, suspicious_ips, ip_registry,
                   blocked_ips_list, checkbox_sessions, rate_limit, ip_rate_limit, callers>>

\* verify_imagegrid, verify_abstract, verify_handwriting.  With a client:
\* "Challenge not found" without a document, else the answer is adjudicated.
\* Without one: verify_imagegrid looks in IMAGE_GRID_SESSIONS ("Challenge
\* not found", "Challenge expired", or adjudicated); ABSTRACT_SESSIONS is
\* never filled and verify_handwriting has no other store: not found.
verify_service(kind, cid, sent) ==
    LET key == <<kind, cid>>
        inKv == redisUp /\ key \in DOMAIN challenges
        inMemory == ~redisUp /\ kind = "imagegrid" /\ cid \in DOMAIN IMAGE_GRID_SESSIONS
        expired == inMemory /\ IsExpired(IMAGE_GRID_SESSIONS[cid].created_at,
                                         IMAGE_GRID_SESSIONS[cid].ttl_seconds, now)
        adjudicated == inKv \/ (inMemory /\ ~expired)
        ok == IF inKv THEN Adjudicate(kind, challenges[key].answer, sent)
              ELSE IF inMemory /\ ~expired
                   THEN Adjudicate(kind, IMAGE_GRID_SESSIONS[cid].correct_cells, sent)
                   ELSE FALSE
    IN
    /\ challenges' = IF inKv THEN AdjudicateKv(challenges, key, ok, now) ELSE challenges
    /\ IMAGE_GRID_SESSIONS' =
          IF expired THEN Del(IMAGE_GRID_SESSIONS, cid)
          ELSE IF inMemory THEN AdjudicateMemory(IMAGE_GRID_SESSIONS, cid, ok)
          ELSE IMAGE_GRID_SESSIONS
    /\ resp' = [op |-> "verify_service", kind |-> kind, challenge_id |-> cid, sent |-> sent,
                path |-> IF redisUp THEN "kv" ELSE "memory",
                adjudicated |-> adjudicated,
                success |-> ok,
                message |-> IF adjudicated THEN ""
                            ELSE IF expired THEN "Challenge expired"
                            ELSE "Challenge not found",
                body |-> IF adjudicated THEN VerifyBody(kind, ok) ELSE RefusedBody]
    /\ reqNo' = 1 - reqNo
    /\ UNCHANGED <<now, dbUp, redisUp, captcha_tokens, suspicious_ips, ip_registry,
                   blocked_ips_list, checkbox_sessions, rate_limit, ip_rate_limit, callers>>

CreateImagegrid ==
    \E cid \in ChallengeIds, cells \in CorrectCellLists : create_service("imagegrid", cid, cells)

CreateAbstract ==
    \E cid \in ChallengeIds, flags \in IsPositiveLists : create_service("abstract", cid, flags)

CreateHandwriting ==
    \E cid \in ChallengeIds, target_class \in TargetClasses :
        create_service("handwriting", cid,
                       [target_class |-> target_class,
                        answer_classes |-> get_answer_classes(target_class)])

VerifyImagegrid ==
    \E cid \in ChallengeIds, selections \in SeqsUpTo(Cells, MaxSel) :
        verify_service("imagegrid", cid, selections)

VerifyAbstract ==
    \E cid \in ChallengeIds, selections \in SeqsUpTo(AbstractIndexes, MaxSel) :
        verify_service("abstract", cid, selections)

VerifyHandwriting ==
    \E cid \in ChallengeIds, text_norm \in Texts : verify_service("handwriting", cid, text_norm)

\* Instants at which the specification of the services observes the clock:
\* a creation, the instant its TTL runs out, and one second later.
ServiceTimes == {0, 60, 61}

\* The three services, called one request at a time, with a client of the
\* KV store or without one.
NextServices ==
    \/ CreateImagegrid \/ CreateAbstract \/ CreateHandwriting
    \/ VerifyImagegrid \/ VerifyAbstract \/ VerifyHandwriting
    \/ Restart \/ Tick(ServiceTimes)

SpecServices == Init /\ [][NextServices]_vars

\* ------------------------------------------ building an abstract challenge

\* The images of an abstract challenge.
NUM_IMAGES == 9

\* Below this many candidates the local build gives up.
MIN_CANDIDATES == 12

\* random.randint(2, 5)
DesiredPositives == 2..5

\* The most file keys the manifest has for the target class.
MaxClassKeys == 5

\* File keys the manifest has for the other classes together.
OtherKeyCounts == {0, 3, 4, 7, 9}

\* Images under the directories of the target class, and images found
\* elsewhere under ABSTRACT_IMAGE_ROOT.
DirImageCounts == {0, 1, 5}

ExtraImageCounts == {10, 12}

\* random.shuffle(combined): the cyclic shifts that stand for the
\* permutation drawn.
Shifts == {0, 1, 5}

Min2(a, b) == IF a <= b THEN a ELSE b

\* [x] * n
Rep(x, n) == [i \in 1..n |-> x]

Rotate(xs, k) ==
    [i \in 1..Len(xs) |-> xs[((i - 1 + k) % Len(xs)) + 1]]

\* The remote build: positives = class_keys[:desired_positive]; negatives =
\* other_keys_all[:9 - len(positives)]; then, while fewer than 9 and
\* other_keys_all is not empty, other_keys_all.pop() is appended as a
\* negative (the list still holds the keys already taken as negatives).
remote_flags(nClass, nOther, desired) ==
    LET positives == Min2(nClass, desired)
        negatives == Min2(nOther, NUM_IMAGES - positives)
        popped == Min2(NUM_IMAGES - (positives + negatives), nOther)
    IN Rep(TRUE, positives) \o Rep(FALSE, negatives + popped)

\* The local build: up to desired_positive images of the directories of the
\* class are guaranteed positives; the pool is filled with images from
\* elsewhere; the best-scored candidates are added as positives until there
\* are desired_positive, the others as negatives until there are 9.
local_candidates(nDir, nExtra, desired) == Min2(nDir, desired) + nExtra

local_flags(nDir, nExtra, desired) ==
    LET candidates == local_candidates(nDir, nExtra, desired)
        positives == Min2(desired, candidates)
        negatives == Min2(NUM_IMAGES - positives, candidates - positives)
    IN Rep(TRUE, positives) \o Rep(FALSE, negatives)

\* HTTPException(500): "Not enough remote images in manifest", "Not enough
\* abstract images in dataset".
build_fails(source, flags, candidates) ==
    IF source = "remote" THEN Len(flags) < NUM_IMAGES ELSE candidates < MIN_CANDIDATES

\* POST /api/abstract-captcha.  The key, when one is sent, is checked (401);
\* an empty word list or a class without keywords is answered 500; the
\* images are drawn as ABSTRACT_CLASS_SOURCE says (500 when there are too
\* few), shuffled, and create_abstract_captcha stores the challenge.
abstract_captcha(k, words, source, flags0, candidates, shift, cid) ==
    LET keyOk == k = "" \/ NextCaptchaKeyOk(k, "", dbUp)
        status == IF ~keyOk THEN 401
                  ELSE IF words # "ok" THEN 500
                  ELSE IF build_fails(source, flags0, candidates) THEN 500
                  ELSE 200
        flags == IF status = 200 THEN Rotate(flags0, shift) ELSE <<>>
    IN
    /\ <<"abstract", cid>> \notin DOMAIN challenges
    /\ Cardinality(DOMAIN challenges) < MaxPending
    /\ challenges' = IF status = 200 /\ redisUp
                     THEN create_challenge(challenges, "abstract", cid, flags, now)
                     ELSE challenges
    /\ resp' = [op |-> "abstract_captcha", api_key |-> k, source |-> source,
                status |-> status, challenge_id |-> cid,
                image_urls |-> Len(flags), is_positive |-> flags]
    /\ reqNo' = 1 - reqNo
    /\ UNCHANGED <<now, dbUp, redisUp, captcha_tokens, suspicious_ips, ip_registry,
                   blocked_ips_list, checkbox_sessions, rate_limit, ip_rate_limit,
                   IMAGE_GRID_SESSIONS, callers>>

AbstractCaptchaRemote ==
    \E k \in {"", "keyA", UnknownKey}, words \in {"empty", "no_keywords", "ok"},
       nClass \in 0..MaxClassKeys, nOther \in OtherKeyCounts,
       desired \in DesiredPositives, shift \in Shifts, cid \in ChallengeIds :
        abstract_captcha(k, words, "remote", remote_flags(nClass, nOther, desired),
                         0, shift, cid)

AbstractCaptchaLocal ==
    \E k \in {"", "keyA", UnknownKey}, words \in {"empty", "no_keywords", "ok"},
       nDir \in DirImageCounts, nExtra \in ExtraImageCounts,
       desired \in DesiredPositives, shift \in Shifts, cid \in ChallengeIds :
        abstract_captcha(k, words, "local", local_flags(nDir, nExtra, desired),
                         local_candidates(nDir, nExtra, desired), shift, cid)

\* The endpoint called one request at a time, over any manifest.
NextAbstract == AbstractCaptchaRemote \/ AbstractCaptchaLocal \/ Tick(ServiceTimes)

SpecAbstract == Init /\ [][NextAbstract]_vars

\* ------------------------------------------------------ issuance endpoints

\* correct_cells of the records of the labelled collection: the labeller
\* writes the cells 1..9 its boxes overlap, none for an image without a box.
LabelledCellLists == {<<>>, <<1, 2>>, <<5, 9>>}

\* What coll.aggregate([{"$sample": {"size": 1}}]).next() gives: a record,
\* or an exception.
ImageRecords ==
    {[found |-> FALSE, correct_cells |-> <<>>]}
        \cup {[found |-> TRUE, correct_cells |-> c] : c \in LabelledCellLists}

\* X-API-Key of a request to an issuance endpoint; "" is a request without one.
IssueKeys == {"", "keyA", UnknownKey, DEMO_PUBLIC_KEY}

\* The key check the three issuance endpoints share, once a key is sent.
IssueKeyOk(k, secret, up) == NextCaptchaKeyOk(k, secret, up)

\* IMAGE_GRID_SESSIONS[challenge_id] = session
PutSession(M, cid, cells, tnow) ==
    [x \in DOMAIN M \cup {cid} |->
        IF x = cid
        THEN [correct_cells |-> cells, created_at |-> tnow,
              ttl_seconds |-> CAPTCHA_TTL, attempts |-> 0]
        ELSE M[x]]

\* POST /api/image-challenge: 401 without X-API-Key or with a key that is
\* refused; create_imagegrid_challenge samples a record, an exception being
\* answered 500, and stores the challenge with the correct_cells of the
\* record as they are.
image_challenge(k, secret, record, cid) ==
    LET status == IF k = "" \/ ~IssueKeyOk(k, secret, dbUp) THEN 401
                  ELSE IF ~record.found THEN 500
                  ELSE 200
    IN
    /\ <<"imagegrid", cid>> \notin DOMAIN challenges
    /\ cid \notin DOMAIN IMAGE_GRID_SESSIONS
    /\ Cardinality(DOMAIN challenges) + Cardinality(DOMAIN IMAGE_GRID_SESSIONS) < MaxPending
    /\ challenges' =
          IF status = 200 /\ redisUp
          THEN create_challenge(challenges, "imagegrid", cid, record.correct_cells, now)
          ELSE challenges
    /\ IMAGE_GRID_SESSIONS' =
          IF status = 200 /\ ~redisUp
          THEN PutSession(IMAGE_GRID_SESSIONS, cid, record.correct_cells, now)
          ELSE IMAGE_GRID_SESSIONS
    /\ resp' = [op |-> "issue", kind |-> "imagegrid", api_key |-> k, secret |-> secret,
                status |-> status, challenge_id |-> cid]
    /\ reqNo' = 1 - reqNo
    /\ UNCHANGED <<now, dbUp, redisUp, captcha_tokens, suspicious_ips, ip_registry,
                   blocked_ips_list, checkbox_sessions, rate_limit, ip_rate_limit, callers>>

\* POST /api/handwriting-challenge: the key is checked when one is sent
\* (401); a class of the manifest is drawn, "" when the manifest is empty;
\* create_handwriting_challenge stores the challenge when there is a client.
handwriting_challenge(k, secret, target_class, cid) ==
    LET status == IF k # "" /\ ~IssueKeyOk(k, secret, dbUp) THEN 401 ELSE 200 IN
    /\ <<"handwriting", cid>> \notin DOMAIN challenges
    /\ Cardinality(DOMAIN challenges) + Cardinality(DOMAIN IMAGE_GRID_SESSIONS) < MaxPending
    /\ challenges' =
          IF status = 200 /\ redisUp
          THEN create_challenge(challenges, "handwriting", cid,
                                [target_class |-> target_class,
                                 answer_classes |-> get_answer_classes(target_class)], now)
          ELSE challenges
    /\ resp' = [op |-> "issue", kind |-> "handwriting", api_key |-> k, secret |-> secret,
                status |-> status, challenge_id |-> cid]
    /\ reqNo' = 1 - reqNo
    /\ UNCHANGED <<now, dbUp, redisUp, captcha_tokens, suspicious_ips, ip_registry,
                   blocked_ips_list, checkbox_sessions, rate_limit, ip_rate_limit,
                   IMAGE_GRID_SESSIONS, callers>>

ImageChallenge ==
    \E k \in IssueKeys, secret \in Secrets, record \in ImageRecords, cid \in ChallengeIds :
        image_challenge(k, secret, record, cid)

HandwritingChallenge ==
    \E k \in IssueKeys, secret \in Secrets, target_class \in TargetClasses,
       cid \in ChallengeIds :
        handwriting_challenge(k, secret, target_class, cid)

\* /api/abstract-captcha over a local dataset that has enough images.
AbstractChallenge ==
    \E k \in IssueKeys, desired \in DesiredPositives, cid \in ChallengeIds :
        abstract_captcha(k, "ok", "local", local_flags(5, 12, desired),
                         local_candidates(5, 12, desired), 0, cid)

\* The three issuance endpoints, called one request at a time, with a
\* client of the KV store or without one.
NextIssue ==
    \/ ImageChallenge \/ AbstractChallenge \/ HandwritingChallenge
    \/ Restart \/ Tick(ServiceTimes)

SpecIssue == Init /\ [][NextIssue]_vars
\* ------------------------------------------- /api/next-captcha, every input

\* confidence_score values on both sides of every threshold of the tiers.
TierScores == {5, 10, 39, 40, 59, 60, 70, 89, 90, 95}

\* Keys sent to /api/next-captcha: a customer's key and the demo key.
TierKeys == {"keyA", DEMO_PUBLIC_KEY}

NextCaptchaAnyAgent ==
    \E k \in TierKeys, score \in TierScores, ua \in UserAgents :
        next_captcha(k, "", "ip1", "s1", score, ua)

\* /api/next-captcha called from desktops and phones, with a customer's key
\* and with the demo key, for every score band.
NextTiers == NextCaptchaAnyAgent \/ Tick(HttpTimes)

SpecTiers == Init /\ [][NextTiers]_vars
\* ------------------------------------------- tokens while the database fails

\* The database stops answering, or answers again: get_db_connection raises
\* in between.
DbOutage ==
    /\ dbUp' = ~dbUp
    /\ UNCHANGED <<now, redisUp, captcha_tokens, otherStores, callers, resp, reqNo>>

\* The token functions, with a database that may fail under them.
NextMint == GenerateToken \/ VerifyToken \/ DbOutage \/ Tick(VerifyTimes)

SpecMint == Init /\ [][NextMint]_vars
\* ------------------------------------------ the verify endpoints, every key

\* POST /api/verify-captcha.  Without X-API-Key, or with a key
\* verify_api_key_auto_secret does not find: 401.  A row flagged is_demo is
\* accepted with the key alone; for another row X-Secret-Key is required and
\* checked (401).  A missing captcha_token or captcha_response: 400.  The
\* tuple of verify_captcha_token is unpacked: an invalid token is answered
\* 400, a valid one is consumed.
verify_captcha(k, secret, token, response) ==
    LET keyOk == /\ k # ""
                 /\ verify_api_key_auto_secret(k, dbUp)
                 /\ \/ api_keys[k].is_demo
                    \/ secret # "" /\ verify_api_key_with_secret(k, secret, dbUp)
        kid == api_keys[k].api_key_id
        token_valid == verify_captcha_token_ret(captcha_tokens, token, kid, now, dbUp)
        stage == IF ~keyOk THEN "key"
                 ELSE IF token = "" \/ response = "" THEN "token_required"
                 ELSE IF ~token_valid[1] THEN "invalid_token"
                 ELSE "verified"
    IN
    /\ captcha_tokens' =
          IF stage \in {"key", "token_required"} THEN captcha_tokens
          ELSE verify_captcha_token_tbl(captcha_tokens, token, kid, now, dbUp)
    /\ resp' = [op |-> "verify", kind |-> "captcha", api_key |-> k, secret |-> secret,
                token |-> token, challenge_id |-> "", signatures |-> NoSignatures,
                status |-> CASE stage = "key" -> 401
                             [] stage \in {"token_required", "invalid_token"} -> 400
                             [] OTHER -> 200,
                outcome |-> stage]
    /\ reqNo' = 1 - reqNo
    /\ UNCHANGED <<now, dbUp, redisUp, otherStores, callers>>

\* Keys sent to the verify endpoints: a customer's key, the demo key, a key
\* that has no row.
VerifyKeys == {"keyA", DEMO_PUBLIC_KEY, UnknownKey}

VerifyEndpointAnyKey ==
    \E kind \in ChallengeKinds, k \in VerifyKeys, secret \in Secrets,
       cid \in ChallengeIds, answer \in Answers :
        verify_endpoint(kind, k, secret, "tokA", cid, answer, NoSignatures)

VerifyCaptcha ==
    \E k \in VerifyKeys, secret \in Secrets, token \in {"", "tokA"} :
        verify_captcha(k, secret, token, "response")

\* The token of a customer is minted.
MintTokenA == generate_captcha_token("tokA", 1, "image")

\* The four verify endpoints called with and without X-Secret-Key.
NextVerifyKeys ==
    CreateChallenge \/ MintTokenA \/ VerifyEndpointAnyKey \/ VerifyCaptcha \/ Tick(VerifyTimes)

SpecVerifyKeys == Init /\ [][NextVerifyKeys]_vars
\* -------------------------------------- /api/abstract-verify with signatures

\* The signatures of the images 0 and 1 of a challenge, as issued.
IssuedSignatures(cid) ==
    [present |-> TRUE,
     list |-> <<SigString(sign_image_token(cid, 0)), SigString(sign_image_token(cid, 1))>>]

\* The same list with the second signature made under another secret.
ForgedSignatures(cid) ==
    [present |-> TRUE,
     list |-> <<SigString(sign_image_token(cid, 0)),
                SigString(HmacSha256("guess", <<cid, 1>>))>>]

SignatureLists(cid) == {NoSignatures, IssuedSignatures(cid), ForgedSignatures(cid)}

AbstractVerifySigned ==
    \E cid \in ChallengeIds, answer \in Answers, token \in {"tokA", BogusToken} :
        \E signatures \in SignatureLists(cid) :
            verify_endpoint("abstract", "keyA", "sk", token, cid, answer, signatures)

\* /api/abstract-verify called with and without signatures.
NextSignatures == CreateChallenge \/ MintTokenA \/ AbstractVerifySigned \/ Tick(VerifyTimes)

SpecSignatures == Init /\ [][NextSignatures]_vars
\* ------------------------------------------------------- _cells_from_boxes

\* Coordinates of a detected box are floats; they are counted here in half
\* pixels.  int(v) of the float that is h half pixels: towards zero.
PyInt_Ceil(h) == (h + 1) \div 2

PyInt(h) == IF h >= 0 THEN h \div 2 ELSE 0 - ((0 - h) \div 2)

\* _cells_from_boxes(width, height, boxes) for one box: the cells listed
\* under its class_name.  xs and ys are the grid boundaries, the corners are
\* cut to integers and clamped to the image, an empty class_name or an empty
\* box is skipped, and a cell is listed when _overlap is positive both ways.
cells_from_boxes(width, height, b) ==
    LET xs == <<0, width \div 3, (width \div 3) + (width \div 3), width>>
        ys == <<0, height \div 3, (height \div 3) + (height \div 3), height>>
        clamp(v, hi) == IF PyInt(v) > hi THEN hi ELSE IF PyInt(v) < 0 THEN 0 ELSE PyInt(v)
        x1 == clamp(b.x1, width)
        y1 == clamp(b.y1, height)
        x2 == clamp(b.x2, width)
        y2 == clamp(b.y2, height)
        lo(a, c) == IF a < c THEN a ELSE c
        hi2(a, c) == IF a > c THEN a ELSE c
        overlap(a1, a2, b1, b2) == hi2(0, lo(a2, b2) - hi2(a1, b1))
        cell_index(r, c) == r * 3 + c + 1
    IN IF b.class_name = "" \/ x2 <= x1 \/ y2 <= y1 THEN {}
       ELSE {cell_index(r, c) : <<r, c>> \in
               {rc \in (0..2) \X (0..2) :
                  /\ overlap(x1, x2, xs[rc[2] + 1], xs[rc[2] + 2]) > 0
                  /\ overlap(y1, y2, ys[rc[1] + 1], ys[rc[1] + 2]) > 0}}

\* Image sizes in pixels: a width that is a multiple of 3 and one that is not.
ImageWidths == {6, 7}

ImageHeights == {9}

\* Corners in half pixels: every one from half a pixel left of the image to
\* half a pixel right of it, and a few heights.
BoxXs == (0 - 1)..15

BoxYs == {0, 2, 4, 5, 7, 18}

\* _cells_from_boxes called, once, on one detected box.
CellsFromBoxes ==
    /\ resp = NoResp
    /\ \E width \in ImageWidths, height \in ImageHeights, x1 \in BoxXs, x2 \in BoxXs,
          y1 \in BoxYs, y2 \in BoxYs, cname \in {"", "cat"} :
          LET b == [x1 |-> x1, y1 |-> y1, x2 |-> x2, y2 |-> y2, class_name |-> cname] IN
          /\ resp' = [op |-> "_cells_from_boxes", width |-> width, height |-> height,
                    box |-> b, cells |-> cells_from_boxes(width, height, b)]
          /\ reqNo' = 1 - reqNo
          /\ UNCHANGED <<now, dbUp, redisUp, captcha_tokens, otherStores, callers>>

SpecCells == Init /\ [][CellsFromBoxes]_vars
\* --------------------------------------- verify_captcha_token, concurrently

\* verify_captcha_token(token, api_key_id), first statement: the SELECT, on
\* the caller's own connection and without a lock.  Without a row the call
\* returns (False, None) at once.
VerifySelect(w, t, k) ==
    /\ dbUp
    /\ callers[w].pc = "idle"
    /\ IF SelectToken(captcha_tokens, t, k, now)
       THEN /\ callers' = [callers EXCEPT ![w] =
                 [pc |-> "selected", token |-> t, api_key_id |-> k,
                  captcha_type |-> captcha_tokens[t].captcha_type]]
            /\ UNCHANGED <<resp, reqNo>>
       ELSE /\ resp' = [op |-> "verify_captcha_token", token |-> t, api_key_id |-> k,
                        valid |-> FALSE, captcha_type |-> "None"]
            /\ reqNo' = 1 - reqNo
            /\ UNCHANGED callers
    /\ UNCHANGED <<now, dbUp, redisUp, captcha_tokens, otherStores>>

\* verify_captcha_token, second statement: UPDATE ... SET is_used = 1 WHERE
\* id = %s for the row the SELECT returned, and return (True, captcha_type).
VerifyUpdate(w) ==
    /\ callers[w].pc = "selected"
    /\ captcha_tokens' = MarkUsed(captcha_tokens, callers[w].token)
    /\ resp' = [op |-> "verify_captcha_token", token |-> callers[w].token,
                api_key_id |-> callers[w].api_key_id,
                valid |-> TRUE, captcha_type |-> callers[w].captcha_type]
    /\ callers' = [callers EXCEPT ![w] = Idle]
    /\ reqNo' = 1 - reqNo
    /\ UNCHANGED <<now, dbUp, redisUp, otherStores>>

\* Two workers validate tokens of two keys; their statements interleave.
NextTokenRace ==
    \/ MintToken
    \/ \E w \in Workers, k \in KeyIds : VerifySelect(w, "tokA", k)
    \/ \E w \in Workers : VerifyUpdate(w)
    \/ Tick(VerifyTimes)

SpecTokenRace == Init /\ [][NextTokenRace]_vars
\* --------------------------------------------- verify services, concurrently

\* doc.get("is_positive", []) or doc.get("correct_cells", []): the stored
\* answer, the empty list for a document that has none.
AnswerOf(doc) == IF "answer" \in DOMAIN doc THEN doc.answer ELSE <<>>

\* verify_abstract (verify_imagegrid alike) with a client, up to the
\* adjudication: the document is read; without one the call returns
\* "Challenge not found", otherwise the selections are compared with it.
VerifyRead(w, kind, cid, sent) ==
    LET key == <<kind, cid>> IN
    /\ redisUp
    /\ callers[w].pc = "idle"
    /\ IF key \in DOMAIN challenges
       THEN /\ callers' = [callers EXCEPT ![w] =
                 [pc |-> "adjudicated", kind |-> kind, challenge_id |-> cid, sent |-> sent,
                  ok |-> Adjudicate(kind, AnswerOf(challenges[key]), sent), attempts |-> 0]]
            /\ UNCHANGED <<resp, reqNo>>
       ELSE /\ resp' = [op |-> "verify_service", kind |-> kind, challenge_id |-> cid,
                        sent |-> sent, success |-> FALSE, message |-> "Challenge not found"]
            /\ reqNo' = 1 - reqNo
            /\ UNCHANGED callers
    /\ UNCHANGED <<now, dbUp, redisUp, captcha_tokens, otherStores>>

\* attempts = redis_incr_attempts(key)
VerifyIncr(w) ==
    LET key == <<callers[w].kind, callers[w].challenge_id>>
        C1 == redis_incr_attempts(challenges, key, now)
    IN
    /\ callers[w].pc = "adjudicated"
    /\ challenges' = C1
    /\ callers' = [callers EXCEPT ![w].pc = "counted", ![w].attempts = C1[key].attempts]
    /\ UNCHANGED <<now, dbUp, redisUp, captcha_tokens, suspicious_ips, ip_registry,
                   blocked_ips_list, checkbox_sessions, rate_limit, ip_rate_limit,
                   IMAGE_GRID_SESSIONS, resp, reqNo>>

\* if ok or attempts >= 1: redis_del(key); the call returns its payload.
VerifyDelete(w) ==
    LET key == <<callers[w].kind, callers[w].challenge_id>> IN
    /\ callers[w].pc = "counted"
    /\ challenges' = IF DeleteAfter(callers[w].ok, callers[w].attempts)
                     THEN Del(challenges, key) ELSE challenges
    /\ resp' = [op |-> "verify_service", kind |-> callers[w].kind,
                challenge_id |-> callers[w].challenge_id, sent |-> callers[w].sent,
                success |-> callers[w].ok, message |-> ""]
    /\ callers' = [callers EXCEPT ![w] = Idle]
    /\ reqNo' = 1 - reqNo
    /\ UNCHANGED <<now, dbUp, redisUp, captcha_tokens, suspicious_ips, ip_registry,
                   blocked_ips_list, checkbox_sessions, rate_limit, ip_rate_limit,
                   IMAGE_GRID_SESSIONS>>

\* The selections the two workers send: none, the first image, the second.
RaceSelections == {<<>>, <<0>>, <<1>>}

\* Two workers verify abstract challenges; their accesses to the KV store
\* interleave.
NextVerifyRace ==
    \/ CreateAbstract
    \/ \E w \in Workers, cid \in ChallengeIds, sel \in RaceSelections :
          VerifyRead(w, "abstract", cid, sel)
    \/ \E w \in Workers : VerifyIncr(w)
    \/ \E w \in Workers : VerifyDelete(w)
    \/ Tick(ServiceTimes)

SpecVerifyRace == Init /\ [][NextVerifyRace]_vars
\* ----------------------------------------------- check_rate_limit, concurrently

\* check_rate_limit, up to the decision: both counters are read and compared
\* with the limits; over a limit the call raises HTTPException(429).
RateRead(w, k) ==
    /\ redisUp
    /\ callers[w].pc = "idle"
    /\ IF RateExceeded(rate_limit, k, api_keys[k].rate_limit_per_minute,
                       api_keys[k].rate_limit_per_day, now)
       THEN /\ resp' = [op |-> "check_rate_limit", api_key |-> k, status |-> 429]
            /\ reqNo' = 1 - reqNo
            /\ UNCHANGED callers
       ELSE /\ callers' = [callers EXCEPT ![w] = [pc |-> "passed", api_key |-> k]]
            /\ UNCHANGED <<resp, reqNo>>
    /\ UNCHANGED <<now, dbUp, redisUp, captcha_tokens, otherStores>>

\* check_rate_limit, the pipeline: incr and expire of the minute and day keys
\* of the instant of the call; the call returns allowed.
RateIncr(w) ==
    LET k == callers[w].api_key IN
    /\ callers[w].pc = "passed"
    /\ rate_limit' = IncrExpire(IncrExpire(rate_limit, RateKey("minute", k, now), MINUTE, now),
                                RateKey("day", k, now), DAY, now)
    /\ resp' = [op |-> "check_rate_limit", api_key |-> k, status |-> 200]
    /\ callers' = [callers EXCEPT ![w] = Idle]
    /\ reqNo' = 1 - reqNo
    /\ UNCHANGED <<now, dbUp, redisUp, captcha_tokens, suspicious_ips, ip_registry,
                   blocked_ips_list, checkbox_sessions, challenges, ip_rate_limit,
                   IMAGE_GRID_SESSIONS>>

\* Two workers run check_rate_limit for the keys; their reads and their
\* pipelines interleave.
NextRateRace ==
    \/ \E w \in Workers, k \in ApiKeys : RateRead(w, k)
    \/ \E w \in Workers : RateIncr(w)
    \/ Tick(HttpTimes)

SpecRateRace == Init /\ [][NextRateRace]_vars
\* ------------------------------------- the services of one process lifetime

\* A process that starts with or without a client of the KV store and keeps
\* what get_redis() gave it.
InitFallback ==
    /\ now = 0
    /\ dbUp = TRUE
    /\ redisUp \in BOOLEAN
    /\ captcha_tokens = Empty
    /\ suspicious_ips = {}
    /\ ip_registry = Empty
    /\ blocked_ips_list = {}
    /\ checkbox_sessions = Empty
    /\ challenges = Empty
    /\ rate_limit = Empty
    /\ ip_rate_limit = Empty
    /\ IMAGE_GRID_SESSIONS = Empty
    /\ callers = [w \in Workers |-> Idle]
    /\ resp = NoResp
    /\ reqNo = 0

\* The abstract and image-grid services, one request at a time.
NextFallback ==
    \/ CreateImagegrid \/ CreateAbstract
    \/ VerifyImagegrid \/ VerifyAbstract
    \/ Tick(ServiceTimes)

SpecFallback == InitFallback /\ [][NextFallback]_vars
\* ------------------------------------------- the suspicious-IP registry

CheckIpRateLimitOk == check_ip_rate_limit("ip1", "none")

AdminBlock == admin_block_ip("keyA", "ip1")

AdminUnblock == admin_unblock_ip("keyA", "ip1")

\* The limiter and the two admin operations on the registry, one call at a
\* time, the store answering every operation.
NextRegistry == CheckIpRateLimitOk \/ AdminBlock \/ AdminUnblock \/ Tick(LimiterTimes)

SpecRegistry == Init /\ [][NextRegistry]_vars
\* ================================================================== claims

\* A step that is a call of verify_captcha_token on its own.
VerifyTokenStep == reqNo' # reqNo /\ resp'.op = "verify_captcha_token"

\* C1: single use.  A row with is_used = 1 keeps is_used = 1 and is never
\* deleted; a call of verify_captcha_token returns valid only on a row whose
\* is_used was 0 and leaves it 1; a call on a row whose is_used is 1 returns
\* invalid.  Hence at most one call per token returns valid, and every call
\* after it returns invalid.
C1_SingleUse ==
    [][ /\ \A t \in DOMAIN captcha_tokens :
              /\ t \in DOMAIN captcha_tokens'
              /\ captcha_tokens[t].is_used = 1 => captcha_tokens'[t].is_used = 1
        /\ (VerifyTokenStep /\ resp'.valid) =>
              /\ resp'.token \in DOMAIN captcha_tokens
              /\ captcha_tokens[resp'.token].is_used = 0
              /\ captcha_tokens'[resp'.token].is_used = 1
        /\ (VerifyTokenStep /\ resp'.token \in DOMAIN captcha_tokens
               /\ captcha_tokens[resp'.token].is_used = 1) => ~resp'.valid
      ]_vars

\* C1 witness: a token that is used, and the last call, made for the key that
\* owns it and before its expiry, was refused.
C1_Witness ==
    /\ resp.op = "verify_captcha_token"
    /\ ~resp.valid
    /\ resp.token \in DOMAIN captcha_tokens
    /\ captcha_tokens[resp.token].is_used = 1
    /\ captcha_tokens[resp.token].api_key_id = resp.api_key_id
    /\ captcha_tokens[resp.token].expires_at > now

\* C3: every row has expires_at = created_at + 600 s; a validation made
\* after expires_at returns invalid; a validation of an unused token made
\* before expires_at for the key it was minted for returns valid.
C3_Expiry ==
    [][ /\ \A t \in DOMAIN captcha_tokens' :
              captcha_tokens'[t].expires_at = captcha_tokens'[t].created_at + 600
        /\ VerifyTokenStep /\ resp'.token \in DOMAIN captcha_tokens =>
              LET row == captcha_tokens[resp'.token] IN
              /\ now > row.expires_at => ~resp'.valid
              /\ (now < row.expires_at /\ row.is_used = 0
                    /\ row.api_key_id = resp'.api_key_id) => resp'.valid
      ]_vars

\* C3 witness: a validation made after expires_at of a token that was never
\* used, for the key that owns it, was refused.
C3_Witness ==
    /\ resp.op = "verify_captcha_token"
    /\ ~resp.valid
    /\ resp.token \in DOMAIN captcha_tokens
    /\ captcha_tokens[resp.token].is_used = 0
    /\ captcha_tokens[resp.token].api_key_id = resp.api_key_id
    /\ now > captcha_tokens[resp.token].expires_at

\* C4: a call returns valid only for the api_key_id of the row; a call with
\* another api_key_id returns invalid and leaves the table as it was.
C4_KeyBound ==
    [][ VerifyTokenStep /\ resp'.token \in DOMAIN captcha_tokens =>
          LET row == captcha_tokens[resp'.token] IN
          /\ resp'.valid => row.api_key_id = resp'.api_key_id
          /\ row.api_key_id # resp'.api_key_id =>
                ~resp'.valid /\ captcha_tokens' = captcha_tokens
      ]_vars

\* C4 witness: a key that does not own the token was refused on it, and the
\* token is still unused and unexpired, so that the owning key can validate
\* it.
C4_Witness ==
    /\ resp.op = "verify_captcha_token"
    /\ ~resp.valid
    /\ resp.token \in DOMAIN captcha_tokens
    /\ captcha_tokens[resp.token].api_key_id # resp.api_key_id
    /\ captcha_tokens[resp.token].is_used = 0
    /\ captcha_tokens[resp.token].expires_at > now


\* A step that is a request to POST /api/next-captcha.
NextCaptchaStep == reqNo' # reqNo /\ resp'.op = "next_captcha"

\* A step that is a request to POST /api/admin/block-ip that passed
\* verify_admin_access.
AdminBlockStep == reqNo' # reqNo /\ resp'.op = "block_ip" /\ resp'.status # 401

\* C6: when suspicious_ips holds a row with is_blocked = 1 for the api_key
\* and the client ip of a request to /api/next-captcha, the answer is 403 and
\* nothing else happens: the key rate counters, the checkbox sessions, the
\* token table and every other store are as before, the ML service was not
\* called and no token is returned.  (The IP rate counters are changed by no
\* request to this handler.)
C6_BlockedRowNoSideEffects ==
    [][ (NextCaptchaStep /\ <<resp'.api_key, resp'.ip>> \in suspicious_ips) =>
          /\ resp'.status = 403
          /\ ~resp'.ml_called
          /\ resp'.captcha_token = "None"
          /\ UNCHANGED <<captcha_tokens, otherStores>>
      ]_vars

\* C6 witness: a request was refused with 403 for a blocked (api_key, ip),
\* it named a session that does not exist, and the same key has a minute
\* counter below its limit at this very time, so that without the row the
\* request would have counted and created the session.
C6_Witness ==
    /\ resp.op = "next_captcha"
    /\ resp.status = 403
    /\ <<resp.api_key, resp.ip>> \in suspicious_ips
    /\ resp.session_id \notin DOMAIN checkbox_sessions
    /\ RateKey("minute", resp.api_key, now) \in DOMAIN rate_limit
    /\ ~RateExceeded(rate_limit, resp.api_key, api_keys[resp.api_key].rate_limit_per_minute,
                     api_keys[resp.api_key].rate_limit_per_day, now)

VerifyEndpointStep == reqNo' # reqNo /\ resp'.op = "verify" /\ resp'.status # 401

\* The token is unknown, already consumed, or expired.
TokenUnusable(t) ==
    \/ t \notin DOMAIN captcha_tokens
    \/ captcha_tokens[t].is_used = 1
    \/ captcha_tokens[t].expires_at <= now

\* C2, as the sources would have to satisfy it: a request to a verify
\* endpoint whose captcha_token is unknown, already consumed or expired is
\* answered 400 as an invalid token, and the challenge documents (their
\* attempts, their presence) are as before.
C2_UnusableTokenRejected ==
    [][ (VerifyEndpointStep /\ TokenUnusable(resp'.token)) =>
          /\ resp'.status = 400
          /\ resp'.outcome = "invalid_token"
          /\ challenges' = challenges
      ]_vars

\* C5, as the sources would have to satisfy it: a request to the verify
\* endpoint of one challenge type with a token minted for another type is
\* answered as an invalid token, and the token is not consumed.
C5_TokenBoundToType ==
    [][ (VerifyEndpointStep /\ resp'.token \in DOMAIN captcha_tokens
           /\ captcha_tokens[resp'.token].captcha_type # TokenTypeOf(resp'.kind)) =>
          /\ resp'.outcome = "invalid_token"
          /\ captcha_tokens' = captcha_tokens
      ]_vars


\* C9, as the sources would have to satisfy it: in every step, of whichever
\* worker, a checkbox session whose is_blocked is true and which still
\* exists after the step has is_blocked true after the step.
C9_BlockNeverUndone ==
    [][ \A s \in DOMAIN checkbox_sessions :
          (checkbox_sessions[s].is_blocked /\ s \in DOMAIN checkbox_sessions') =>
              checkbox_sessions'[s].is_blocked
      ]_vars

\* A step that is a call of check_rate_limit on its own.
RateStep == reqNo' # reqNo /\ resp'.op = "check_rate_limit"

\* The counter of the current window of a unit for the key of the call.
CountBefore(unit) == RateCount(rate_limit, RateKey(unit, resp'.api_key, now))

CountAfter(unit) == RateCount(rate_limit', RateKey(unit, resp'.api_key, now))

\* The limit of a unit in the row of the key of the call.
LimitOf(unit) ==
    IF unit = "minute" THEN api_keys[resp'.api_key].rate_limit_per_minute
    ELSE api_keys[resp'.api_key].rate_limit_per_day

\* C10 as stated, each window taken alone: in a window whose counter is
\* below the limit the call is allowed and raises the counter by exactly 1;
\* in a window whose counter has reached the limit the call raises 429 and
\* leaves all counters unchanged.  (In a new window id the counter is 0, so
\* the first call there would be allowed.)
C10_WindowAlone ==
    [][ RateStep =>
          \A unit \in Units :
              /\ CountBefore(unit) < LimitOf(unit) =>
                    resp'.status = 200 /\ CountAfter(unit) = CountBefore(unit) + 1
              /\ CountBefore(unit) >= LimitOf(unit) =>
                    resp'.status = 429 /\ rate_limit' = rate_limit
      ]_vars

\* C10, amended: a call is allowed exactly when the counters of both current
\* windows of the key, minute and day, are below their limits; an allowed
\* call raises both counters by exactly 1 and leaves the counters of the
\* other keys alone; a refused call raises 429 and leaves all counters
\* unchanged; no counter ever exceeds its limit.  So at most `limit` calls
\* are allowed per window, and the first call in a new minute window is
\* allowed again when the day counter is below its limit.
C10_BothWindows ==
    [][ RateStep =>
          /\ (\A unit \in Units : CountBefore(unit) < LimitOf(unit)) =>
                /\ resp'.status = 200
                /\ \A unit \in Units : CountAfter(unit) = CountBefore(unit) + 1
                /\ \A key \in DOMAIN rate_limit :
                      key[2] # resp'.api_key =>
                          key \in DOMAIN rate_limit' /\ rate_limit'[key] = rate_limit[key]
          /\ (\E unit \in Units : CountBefore(unit) >= LimitOf(unit)) =>
                resp'.status = 429 /\ rate_limit' = rate_limit
          /\ \A unit \in Units : CountAfter(unit) <= LimitOf(unit)
      ]_vars

\* C10 witness: the first call in the second minute window was allowed, its
\* counter is 1, and the day counter shows that the first minute window had
\* used its whole limit.
C10_Witness ==
    /\ resp.op = "check_rate_limit"
    /\ resp.status = 200
    /\ WindowId("minute", now) = 1
    /\ RateCount(rate_limit, RateKey("minute", resp.api_key, now)) = 1
    /\ RateCount(rate_limit, RateKey("day", resp.api_key, now))
          = api_keys[resp.api_key].rate_limit_per_minute + 1


\* ------------------------------------------------------ claims: IP limiter

\* The count of the IP's current minute window.
IpMinuteCount(rl, ip) == RateCount(rl, IpRateKey("minute", ip, now))

\* C11: /api/next-captcha applies the per-IP minute limit of 10: a request
\* that has passed the suspicious_ips guard is answered 429, the IP having a
\* suspicious-IP record afterwards, when its IP has made 10 requests in the
\* minute window, and is counted in that window otherwise; so the eleventh
\* request of a window is answered 429.
C11_EleventhRequest429 ==
    [][NextCaptchaStep /\ resp'.stage # "guard" =>
         IF IpMinuteCount(ip_rate_limit, resp'.ip) >= IP_PER_MINUTE
         THEN resp'.status = 429 /\ resp'.ip \in DOMAIN ip_registry'
         ELSE IpMinuteCount(ip_rate_limit', resp'.ip)
                  = IpMinuteCount(ip_rate_limit, resp'.ip) + 1]_vars

\* ---------------------------------------------------- claims: fail-open

LimiterStep ==
    reqNo' # reqNo /\ resp'.op \in {"check_rate_limit", "check_ip_rate_limit"}

\* The call returned allowed, the remaining budgets being the limits passed.
FailOpen(r) ==
    /\ r.status = 200
    /\ IF r.op = "check_ip_rate_limit"
       THEN /\ r.minute_remaining = IP_PER_MINUTE
            /\ r.hour_remaining = IP_PER_HOUR
            /\ r.day_remaining = IP_PER_DAY
       ELSE /\ r.minute_remaining = api_keys[r.api_key].rate_limit_per_minute
            /\ r.day_remaining = api_keys[r.api_key].rate_limit_per_day

\* C12, as stated: whenever there is no client or any KV operation inside
\* check_rate_limit or check_ip_rate_limit raises, the call returns allowed
\* with the remaining budgets equal to the limits, and no 429.
C12_AnyKvFailure ==
    [][LimiterStep /\ resp'.raised # "none" => FailOpen(resp')]_vars

\* C12, amended: the call returns allowed with the remaining budgets equal to
\* the limits when there is no client, or a read of the counters or the
\* increment pipeline raises; a KV operation that raises while
\* check_ip_rate_limit records the suspicious IP is swallowed there, and the
\* 429 decided on the counters is raised.
C12_FailOpen ==
    [][LimiterStep =>
         /\ resp'.raised \in {"no_client", "get", "pipeline"} => FailOpen(resp')
         /\ resp'.raised = "mark" => resp'.status = 429]_vars

\* A call allowed because the read of the counters raised, the minute
\* window of the IP being full.
C12_Witness ==
    /\ resp.op = "check_ip_rate_limit"
    /\ resp.raised = "get"
    /\ resp.status = 200
    /\ IpMinuteCount(ip_rate_limit, resp.ip) >= IP_PER_MINUTE

\* ------------------------------------------------------- claims: services

ServiceVerifyStep == reqNo' # reqNo /\ resp'.op = "verify_service"

\* Before the step, the challenge the step's verify is about is in the store
\* its path reads, and what is stored for it.
StoredFor(r) ==
    IF r.path = "kv" THEN <<r.kind, r.challenge_id>> \in DOMAIN challenges
    ELSE r.kind = "imagegrid" /\ r.challenge_id \in DOMAIN IMAGE_GRID_SESSIONS

StoredAfter(r) ==
    IF r.path = "kv" THEN <<r.kind, r.challenge_id>> \in DOMAIN challenges'
    ELSE r.kind = "imagegrid" /\ r.challenge_id \in DOMAIN IMAGE_GRID_SESSIONS'

AnswerFor(r) ==
    IF r.path = "kv" THEN challenges[<<r.kind, r.challenge_id>>].answer
    ELSE IMAGE_GRID_SESSIONS[r.challenge_id].correct_cells

CreatedAtFor(r) ==
    IF r.path = "kv" THEN challenges[<<r.kind, r.challenge_id>>].created_at
    ELSE IMAGE_GRID_SESSIONS[r.challenge_id].created_at

AttemptsFor(r) ==
    IF r.path = "kv" THEN challenges[<<r.kind, r.challenge_id>>].attempts
    ELSE IMAGE_GRID_SESSIONS[r.challenge_id].attempts

\* The fields that give the answer away.
AnswerFields == {"is_positive", "target_class", "correct_cells"}

\* C13: no body returned by the issuance or the verify of a challenge, on
\* success or on failure, has a field is_positive, target_class or
\* correct_cells.
C13_NoAnswerInBody ==
    resp.op \in {"create", "verify_service"} => resp.body \cap AnswerFields = {}

\* C14: verify_imagegrid on a stored challenge succeeds exactly when the set
\* of the selections is the set of the challenge's correct_cells, whatever
\* the order and the repetitions of the selections.
C14_ImagegridSetEquality ==
    [][ServiceVerifyStep /\ resp'.kind = "imagegrid" /\ resp'.adjudicated =>
         (resp'.success <=> ToSet(resp'.sent) = ToSet(AnswerFor(resp')))]_vars

\* A success on selections given in another order than the stored cells.
C14_Witness ==
    /\ resp.op = "verify_service" /\ resp.kind = "imagegrid"
    /\ resp.success /\ resp.sent = <<2, 1>>

\* C15: verify_abstract on a stored challenge succeeds exactly when the set
\* of the selections is {i : is_positive[i]}; a selection with an index out
\* of range fails.
C15_AbstractSetEquality ==
    [][ServiceVerifyStep /\ resp'.kind = "abstract" /\ resp'.adjudicated =>
         LET flags == AnswerFor(resp')
             positives == { i \in 0..(Len(flags) - 1) : flags[i + 1] }
             sel == ToSet(resp'.sent)
         IN /\ resp'.success <=> sel = positives
            /\ (\E i \in sel : i < 0 \/ i >= Len(flags)) => ~resp'.success]_vars

\* A success on two positives selected in reverse order.
C15_Witness ==
    /\ resp.op = "verify_service" /\ resp.kind = "abstract"
    /\ resp.success /\ resp.sent = <<1, 0>>

C17_GoneAfterSuccess ==
    [][ServiceVerifyStep =>
         /\ resp'.success => ~StoredAfter(resp')
         /\ ~StoredFor(resp') =>
               /\ ~resp'.success
               /\ resp'.message = "Challenge not found"
               /\ ~StoredAfter(resp')]_vars

\* A handwriting verify has succeeded and no challenge is stored.
C17_Witness ==
    /\ resp.op = "verify_service" /\ resp.kind = "handwriting" /\ resp.success
    /\ challenges = Empty

\* C18: for image-grid and abstract challenges a first failed verify leaves
\* the challenge stored with attempts = 1, so that a second verify is
\* adjudicated.
C18_SecondAttempt ==
    [][/\ ServiceVerifyStep
       /\ resp'.kind \in {"imagegrid", "abstract"}
       /\ resp'.adjudicated /\ ~resp'.success
       /\ AttemptsFor(resp') = 0
       => /\ StoredAfter(resp')
          /\ resp'.path = "kv" =>
                challenges'[<<resp'.kind, resp'.challenge_id>>].attempts = 1]_vars

AbstractCaptchaStep == reqNo' # reqNo /\ resp'.op = "abstract_captcha"

\* The number of true flags.
Positives(flags) == Cardinality({ i \in DOMAIN flags : flags[i] })

\* C20: every abstract challenge that /api/abstract-captcha issues and
\* stores has 9 image_urls and 9 is_positive flags, between 2 and 5 of them
\* true, whatever the manifest holds for the target class; otherwise the
\* request fails and nothing is stored.
C20_NineImagesTwoToFivePositives ==
    [][AbstractCaptchaStep =>
         IF resp'.status = 200
         THEN /\ resp'.image_urls = NUM_IMAGES
              /\ Len(resp'.is_positive) = NUM_IMAGES
              /\ Positives(resp'.is_positive) \in 2..5
              /\ challenges'[<<"abstract", resp'.challenge_id>>].answer = resp'.is_positive
         ELSE challenges' = challenges]_vars

\* ------------------------------------------------------- claims: issuance

IssueStep == reqNo' # reqNo /\ resp'.op \in {"issue", "abstract_captcha"}

\* The correct_cells a step has stored for its challenge.
StoredCells(r) ==
    IF redisUp THEN challenges'[<<"imagegrid", r.challenge_id>>].answer
    ELSE IMAGE_GRID_SESSIONS'[r.challenge_id].correct_cells

\* C21: an image-grid challenge that is issued is stored with a non-empty
\* correct_cells within 1..9; a request that is not answered 200 stores
\* nothing, and a record without labelled cells is not answered 200.
C21_CorrectCellsNonEmpty ==
    [][IssueStep /\ resp'.op = "issue" /\ resp'.kind = "imagegrid" =>
         IF resp'.status = 200
         THEN /\ StoredCells(resp') # <<>>
              /\ ToSet(StoredCells(resp')) \subseteq 1..9
         ELSE challenges' = challenges /\ IMAGE_GRID_SESSIONS' = IMAGE_GRID_SESSIONS]_vars

\* C27: a request to an issuance endpoint without X-API-Key is answered 401
\* and no challenge is stored.
C27_IssuanceNeedsKey ==
    [][IssueStep /\ resp'.api_key = "" =>
         /\ resp'.status = 401
         /\ challenges' = challenges
         /\ IMAGE_GRID_SESSIONS' = IMAGE_GRID_SESSIONS]_vars
\* ------------------------------------------------- claims on /api/next-captcha

\* A call of /api/next-captcha that passed the guard, the key check and the
\* rate limit, for a session that is not blocked.
NextCaptchaServed ==
    reqNo' # reqNo /\ resp'.op = "next_captcha" /\ resp'.stage = "attempts"

\* C22: a request with a mobile User-Agent is answered captcha_type "pass"
\* and next_captcha null whatever the score, and neither a behaviour document
\* nor a score record is saved.
C22_MobilePasses ==
    [][NextCaptchaServed /\ is_mobile_user_agent(resp'.user_agent)
         => /\ resp'.status = 200
            /\ resp'.captcha_type = "pass"
            /\ resp'.next_captcha = "None"
            /\ ~resp'.behavior_saved
            /\ ~resp'.score_saved]_vars

\* The tabulated bands: captcha_type and next_captcha for a score.
TierType(s) ==
    IF s >= 90 THEN "pass"
    ELSE IF s >= 60 THEN "image"
    ELSE IF s >= 40 THEN "abstract"
    ELSE IF s >= 10 THEN "handwriting"
    ELSE ""

TierNext(s) ==
    IF s >= 90 THEN "None"
    ELSE IF s >= 60 THEN "imagecaptcha"
    ELSE IF s >= 40 THEN "abstractcaptcha"
    ELSE IF s >= 10 THEN "handwritingcaptcha"
    ELSE ""

\* C23: a request that is neither mobile nor blocked is answered with the
\* tier of its score: pass from 90, image from 60, abstract from 40,
\* handwriting from 10.
C23_TierOfScore ==
    [][NextCaptchaServed /\ ~is_mobile_user_agent(resp'.user_agent) /\ resp'.score >= 10
         => /\ resp'.status = 200
            /\ resp'.captcha_type = TierType(resp'.score)
            /\ resp'.next_captcha = TierNext(resp'.score)]_vars

\* C25: a /api/next-captcha request made with the demo key leaves the minute
\* and day counters of rate_limit unchanged.
C25_DemoLeavesCounters ==
    [][reqNo' # reqNo /\ resp'.op = "next_captcha" /\ resp'.api_key = DEMO_PUBLIC_KEY
         => rate_limit' = rate_limit]_vars

\* C30: a response that is not "blocked" carries the session's attempts
\* counter after the call, which the call raised by one: n on the n-th call of
\* the session.
C30_AttemptsCounted ==
    [][NextCaptchaServed
         => /\ resp'.status = 200
            /\ ReadSession(checkbox_sessions', resp'.session_id).attempts
                 = ReadSession(checkbox_sessions, resp'.session_id).attempts + 1]_vars
\* ------------------------------------------------------ claims on minting

\* C29: a token handed out without the demo_token_ or fallback_token_ prefix
\* is backed by a stored, unused captcha_tokens row, the database failing or
\* not.
C29_ReturnedTokenIsStored ==
    [][reqNo' # reqNo /\ resp'.op = "generate_captcha_token"
         => /\ resp'.token \in DOMAIN captcha_tokens'
            /\ captcha_tokens'[resp'.token].is_used = 0]_vars
\* ----------------------------------------- claims on the keys of verification

\* A call of one of the four verify endpoints.
VerifyKeyStep == reqNo' # reqNo /\ resp'.op = "verify"

\* C24: the demo key, whose row is flagged is_demo, is accepted at every
\* verify endpoint with the public key alone, without X-Secret-Key.
C24_DemoKeyAlone ==
    [][VerifyKeyStep /\ resp'.api_key = DEMO_PUBLIC_KEY /\ resp'.secret = ""
         => resp'.status # 401]_vars

\* The secret sent is the one stored for the key.
SecretMatches(k, secret) ==
    k \in DOMAIN api_keys /\ secret # "" /\ secret = api_keys[k].secret_key

\* C26: with a key that is not the demo key and a secret, missing or wrong,
\* that is not the one stored for the key, a verify endpoint answers 401 and
\* leaves the tokens and the challenges as they were.
C26_SecretRequired ==
    [][VerifyKeyStep /\ resp'.api_key # DEMO_PUBLIC_KEY
           /\ ~SecretMatches(resp'.api_key, resp'.secret)
         => /\ resp'.status = 401
            /\ captcha_tokens' = captcha_tokens
            /\ challenges' = challenges]_vars

\* A request with a wrong secret was refused while the token it named was
\* valid and the challenge it named was pending.
C26_Witness ==
    /\ resp.op = "verify"
    /\ resp.kind = "imagegrid"
    /\ resp.api_key = "keyA"
    /\ resp.secret = "wrong"
    /\ resp.status = 401
    /\ resp.token \in DOMAIN captcha_tokens
    /\ captcha_tokens[resp.token].is_used = 0
    /\ captcha_tokens[resp.token].api_key_id = 1
    /\ <<"imagegrid", resp.challenge_id>> \in DOMAIN challenges
\* ------------------------------------------------------ claims on signatures

\* Every signature of the list is the HMAC of "{challenge_id}:{i}".
SignaturesMatch(cid, signatures) ==
    \A i \in 1..Len(signatures.list) :
        verify_image_token(cid, i - 1, signatures.list[i].hex)

\* C28: when /api/abstract-verify receives signatures of which one does not
\* match, the request fails and the answer is never a success.
C28_ForgedSignatureFails ==
    [][/\ reqNo' # reqNo /\ resp'.op = "verify" /\ resp'.kind = "abstract"
       /\ resp'.signatures.present
       /\ ~SignaturesMatch(resp'.challenge_id, resp'.signatures)
         => resp'.outcome # "pass"]_vars
\* ------------------------------------------- claims on handwriting issuance

\* C31: /api/handwriting-challenge never answers 200 for a challenge whose
\* target_class is empty (the manifest gave no class), and stores none.
C31_NoEmptyHandwritingChallenge ==
    [][IssueStep /\ resp'.op = "issue" /\ resp'.kind = "handwriting"
         => LET key == <<"handwriting", resp'.challenge_id>> IN
            key \in DOMAIN challenges' => challenges'[key].answer.target_class # ""]_vars
\* ------------------------------------------------ claims on _cells_from_boxes

\* The cells (1..9, row by row) whose rectangle, over the boundaries
\* [0, W div 3, 2 (W div 3), W] and the same for H, meets the box in a
\* positive area.  Everything is in half pixels.
CellsMeeting(width, height, b) ==
    LET xs == <<0, 2 * (width \div 3), 4 * (width \div 3), 2 * width>>
        ys == <<0, 2 * (height \div 3), 4 * (height \div 3), 2 * height>>
        meets(a1, a2, c1, c2) == a1 < a2 /\ a1 < c2 /\ c1 < a2
    IN {r * 3 + c + 1 : <<r, c>> \in
          {rc \in (0..2) \X (0..2) :
             /\ meets(b.x1, b.x2, xs[rc[2] + 1], xs[rc[2] + 2])
             /\ meets(b.y1, b.y2, ys[rc[1] + 1], ys[rc[1] + 2])}}

\* C32: a box with a class name labels exactly the cells whose rectangle has
\* a positive intersection area with it.
C32_CellsOfPositiveOverlap ==
    [][reqNo' # reqNo /\ resp'.op = "_cells_from_boxes" /\ resp'.box.class_name # ""
         => resp'.cells = CellsMeeting(resp'.width, resp'.height, resp'.box)]_vars

\* The box with every corner cut down to a whole pixel.
WholePixels(b) ==
    [b EXCEPT !.x1 = @ - (@ % 2), !.y1 = @ - (@ % 2), !.x2 = @ - (@ % 2), !.y2 = @ - (@ % 2)]

\* The box lies strictly inside the cell of row r and column c.
StrictlyInside(width, height, b, r, c) ==
    /\ 2 * c * (width \div 3) < b.x1
    /\ b.x2 < (IF c = 2 THEN 2 * width ELSE 2 * (c + 1) * (width \div 3))
    /\ 2 * r * (height \div 3) < b.y1
    /\ b.y2 < (IF r = 2 THEN 2 * height ELSE 2 * (r + 1) * (height \div 3))

\* C32, amended: a box with a class name labels exactly the cells whose
\* rectangle has a positive intersection area with the box once its corners
\* are cut down to whole pixels; a box of whole-pixel corners and positive
\* area that lies strictly inside one cell yields exactly that cell.
C32_CellsOfWholePixelBox ==
    [][reqNo' # reqNo /\ resp'.op = "_cells_from_boxes" /\ resp'.box.class_name # ""
         => /\ resp'.cells = CellsMeeting(resp'.width, resp'.height, WholePixels(resp'.box))
            /\ \A r \in 0..2, c \in 0..2 :
                  /\ WholePixels(resp'.box) = resp'.box
                  /\ resp'.box.x1 < resp'.box.x2 /\ resp'.box.y1 < resp'.box.y2
                  /\ StrictlyInside(resp'.width, resp'.height, resp'.box, r, c)
                  => resp'.cells = {r * 3 + c + 1}]_vars

\* A box over the boundary between the first two cells of the top row was
\* given both cells.
C32_Witness ==
    /\ resp.op = "_cells_from_boxes"
    /\ resp.box.class_name = "cat"
    /\ resp.box.x1 = 2 /\ resp.box.x2 = 6 /\ resp.box.y1 = 0 /\ resp.box.y2 = 4
    /\ resp.width = 6
    /\ resp.cells = {1, 2}
\* ------------------------------------------------ claims on /api/verify-captcha

\* A challenge verify endpoint has taken the token: the only place where a
\* challenge is adjudicated under a token marks the token used.
TakenByChallenge(t) == t \in DOMAIN captcha_tokens /\ captcha_tokens[t].is_used = 1

\* C33: /api/verify-captcha answers success only for a token under which a
\* challenge was verified before; a token no challenge verify has seen is
\* not accepted.
C33_FinalCheckNeedsSolvedChallenge ==
    [][VerifyKeyStep /\ resp'.kind = "captcha" /\ resp'.status = 200
         => TakenByChallenge(resp'.token)]_vars
\* ------------------------------------------------------ claims on interleavings

\* C34: of the verify_captcha_token calls on one token at most one returns
\* valid: a call that returns valid finds the token unused as it returns.
C34_OneValidPerToken ==
    [][reqNo' # reqNo /\ resp'.op = "verify_captcha_token" /\ resp'.valid
         => captcha_tokens[resp'.token].is_used = 0]_vars

\* C35: of the verify calls on one challenge at most one returns success
\* (two calls returning one after the other on the same challenge, no
\* creation in between, are not both successes), and no document is left in
\* the store without its answer.
C35_OneSuccessPerChallenge ==
    [][/\ (reqNo' # reqNo /\ resp'.op = "verify_service" /\ resp'.success
             /\ resp.op = "verify_service" /\ resp.challenge_id = resp'.challenge_id)
           => ~resp.success
       /\ \A key \in DOMAIN challenges' : "answer" \in DOMAIN challenges'[key]]_vars

\* C36: the calls allowed for a key in a window, which the counter of the
\* window counts, never exceed the limit of the key for that window.
C36_AllowedWithinLimit ==
    \A key \in DOMAIN rate_limit :
        rate_limit[key].count <=
            (IF key[1] = "minute" THEN api_keys[key[2]].rate_limit_per_minute
             ELSE api_keys[key[2]].rate_limit_per_day)
\* ------------------------------------------------------------------ C37

\* C37: a verify request of an accepted key that names a challenge which is
\* not in the store is answered not_found, and the token it carries is left
\* as it was.
C37_LookupBeforeToken ==
    [][(/\ reqNo' # reqNo
        /\ resp'.op = "verify"
        /\ resp'.status # 401
        /\ <<resp'.kind, resp'.challenge_id>> \notin DOMAIN challenges)
       => /\ resp'.outcome = "not_found"
          /\ captcha_tokens' = captcha_tokens]_vars
\* ------------------------------------------------------------------ C38

\* The in-process map of a kind holds the challenge.  ABSTRACT_SESSIONS is
\* written by no code of the routers and services: it holds nothing.
HeldInMemory(M, kind, cid) == kind = "imagegrid" /\ cid \in DOMAIN M

\* C38: without a client of the KV store, a challenge built by the abstract
\* or image-grid builder is held in the in-process map; a verify that
\* follows within the TTL, still without a client, finds it, and a success
\* removes it; and no verify looks in one store for a challenge held in the
\* other.
C38_MemoryFallbackServes ==
    [][/\ (/\ reqNo' # reqNo
           /\ resp'.op = "create"
           /\ resp'.path = "memory"
           /\ resp'.kind \in {"abstract", "imagegrid"})
          => HeldInMemory(IMAGE_GRID_SESSIONS', resp'.kind, resp'.challenge_id)
       /\ (/\ ServiceVerifyStep
           /\ resp'.path = "memory"
           /\ resp'.kind \in {"abstract", "imagegrid"}
           /\ resp.op = "create"
           /\ resp.path = "memory"
           /\ resp.kind = resp'.kind
           /\ resp.challenge_id = resp'.challenge_id
           /\ now <= CAPTCHA_TTL)
          => /\ resp'.adjudicated
             /\ resp'.success
                  => ~HeldInMemory(IMAGE_GRID_SESSIONS', resp'.kind, resp'.challenge_id)
       /\ ServiceVerifyStep
          => /\ resp'.path = "memory"
                  => <<resp'.kind, resp'.challenge_id>> \notin DOMAIN challenges
             /\ resp'.path = "kv"
                  => ~HeldInMemory(IMAGE_GRID_SESSIONS, resp'.kind, resp'.challenge_id)]_vars

\* The same for the image-grid builder alone, whose session is put in
\* IMAGE_GRID_SESSIONS.
C38_ImagegridOnly ==
    [][/\ (/\ reqNo' # reqNo
           /\ resp'.op = "create"
           /\ resp'.path = "memory"
           /\ resp'.kind = "imagegrid")
          => HeldInMemory(IMAGE_GRID_SESSIONS', resp'.kind, resp'.challenge_id)
       /\ (/\ ServiceVerifyStep
           /\ resp'.path = "memory"
           /\ resp'.kind = "imagegrid"
           /\ resp.op = "create"
           /\ resp.path = "memory"
           /\ resp.kind = resp'.kind
           /\ resp.challenge_id = resp'.challenge_id
           /\ now <= CAPTCHA_TTL)
          => /\ resp'.adjudicated
             /\ resp'.success
                  => ~HeldInMemory(IMAGE_GRID_SESSIONS', resp'.kind, resp'.challenge_id)]_vars
\* ------------------------------------------------------------------ C39

\* The limiter refused the call: it has recorded a violation of the IP.
RecordStep == reqNo' # reqNo /\ resp'.op = "check_ip_rate_limit" /\ resp'.status = 429

BlockStep == reqNo' # reqNo /\ resp'.op \in {"block_ip", "unblock_ip"}

\* C39: violation_count is the length of violations[] in every document of
\* the registry; a recorded violation leaves the document of the IP with one
\* entry more, last_violation at the instant of the call and is_blocked as
\* it was; block_ip and unblock_ip leave violations[] and violation_count of
\* every document as they were.
C39_RegistryShape ==
    [][/\ \A ip \in DOMAIN ip_registry' :
             ip_registry'[ip].violation_count = Len(ip_registry'[ip].violations)
       /\ RecordStep =>
             LET ip == resp'.ip
                 had == ip \in DOMAIN ip_registry
             IN /\ ip \in DOMAIN ip_registry'
                /\ Len(ip_registry'[ip].violations)
                      = (IF had THEN Len(ip_registry[ip].violations) ELSE 0) + 1
                /\ ip_registry'[ip].last_violation = now
                /\ ip_registry'[ip].is_blocked = (had /\ ip_registry[ip].is_blocked)
       /\ BlockStep =>
             \A ip \in DOMAIN ip_registry \cap DOMAIN ip_registry' :
                 /\ ip_registry'[ip].violations = ip_registry[ip].violations
                 /\ ip_registry'[ip].violation_count = ip_registry[ip].violation_count]_vars
\* ------------------------------------------------------------------ C40

\* C40: in every checkbox session, is_blocked holds exactly when
\* bot_attempts has reached 3, and bot_attempts is at most attempts; a
\* request to /api/next-captcha on a session that is not blocked raises
\* attempts by one, and bot_attempts by one exactly when its score is 91 or
\* more.
C40_SessionCounters ==
    [][/\ \A sid \in DOMAIN checkbox_sessions' :
             /\ checkbox_sessions'[sid].is_blocked
                  <=> checkbox_sessions'[sid].bot_attempts >= BOT_BLOCK_AT
             /\ checkbox_sessions'[sid].bot_attempts <= checkbox_sessions'[sid].attempts
       /\ NextCaptchaServed =>
             LET before == ReadSession(checkbox_sessions, resp'.session_id)
                 after == ReadSession(checkbox_sessions', resp'.session_id)
             IN /\ after.attempts = before.attempts + 1
                /\ after.bot_attempts
                     = before.bot_attempts + (IF resp'.score >= BOT_SCORE THEN 1 ELSE 0)]_vars
====
